---- MODULE Spec2Model ----
(***************************************************************************)
(* A model of libsocket (src/include/libsocket/socket.hpp,                 *)
(* src/src/socket.cpp): the four socket classes and SocketInitializer as   *)
(* owners of operating-system resources (descriptors, getaddrinfo lists),  *)
(* and the read entry points over a connection.                            *)
(*                                                                         *)
(* The operating system is the environment: every call into it            *)
(* (getaddrinfo, socket, connect, bind, listen, accept, shutdown,          *)
(* setsockopt, close, recv) takes its outcome from a small set.            *)
(***************************************************************************)
EXTENDS Integers, Sequences, FiniteSets, TLC

VARIABLES
    prog,     \* the calling program: which classes and operations this run uses
    obj,      \* the objects: kind and fields of each object slot
    fdSt,     \* OS: the state of each descriptor
    aiSt,     \* OS: the state of each list getaddrinfo returned
    calls,    \* the OS calls made by the last operation, in order
    exc,      \* the exception the last operation left with, if any
    diag,     \* whether the last operation wrote a diagnostic to std::cerr
    lastOp,   \* the last operation, its object and its argument object
    stack,    \* network stack: InitSockets that succeeded, CleanupSockets calls
    rx,       \* connection: bytes received from the peer and not yet read
    peerClosed, \* connection: the peer has closed its end
    rd,       \* connection: how the last read, write or isConnected ended
    sk,       \* OS: how far each descriptor got as a listener (bind, listen),
              \* and the connections that wait on it
    resolved, \* OS: the address families, in list order, of the candidates of the
              \* list the latest getaddrinfo of a ServerSocket returned (the
              \* contents of earlier lists are not kept)
    build,    \* the platform the library was built for
    inq,      \* connected pair: bytes that arrived at each end and are not yet read
    sent,     \* connected pair: the bytes send() accepted at each end, in order
    got,      \* connected pair: the bytes the reads of each end returned, in order
    buffer,   \* connected pair: buffer.size() of each end's Socket
    nonBlocking, \* connected pair: the O_NONBLOCK / FIONBIO mode of each end's descriptor
    path,     \* OS: the filesystem entry at the path of the UnixSockets
    udp,      \* OS: local port, receive timeout and waiting datagrams of each descriptor
    ret       \* the outputs of the last operation (for setTimeout and a recvFrom that
              \* waits: its argument; for a read of the program "read": the length
              \* asked of recv), where the model keeps them

pairVars == <<build, inq, sent, got, buffer, nonBlocking, path, udp, ret>>
vars == <<prog, obj, fdSt, aiSt, calls, exc, diag, lastOp, stack, rx, peerClosed, rd, sk,
          resolved, pairVars>>
ioVars == <<rx, peerClosed, rd>>

(***************************************************************************)
(* Bounds of the model.                                                    *)
(***************************************************************************)
Objs == {"a", "b"}          \* object slots (variables of the calling program)
MaxFd == 2                  \* descriptors the OS hands out in one run
MaxAi == 2                  \* lists getaddrinfo hands out in one run
MaxCand == 2                \* candidates in one getaddrinfo list
MaxInit == 2                \* InitSockets calls that succeed in one run
MaxRx == 2                  \* bytes in flight on the connection
MaxLen == 2                 \* length asked of one recv (buffer size, sizeof(T))
MaxPending == 1             \* connections waiting on one listening descriptor
Bytes == {0, 1}

(***************************************************************************)
(* Program constants.                                                      *)
(***************************************************************************)
INVALID_SOCKET == -1
SOCKET_ERROR == -1
nullptr == 0
AF_INET == 2
AF_INET6 == 10

Fds == 1..MaxFd
Ais == 1..MaxAi

\* Values of GetSocketError() after a failed call, by the call that failed.
SocketErrs == {24, 97}      \* socket(): EMFILE, EAFNOSUPPORT
CloseErrs == {5}            \* close() of a descriptor: EIO
BadFdErrs == {9}            \* close() of INVALID_SOCKET: EBADF
ConnectErrs == {111}        \* connect(): ECONNREFUSED
TimeoutErrs == {110}        \* connect(): ETIMEDOUT, the OS gave up on a silent target
BindErrs == {98}            \* bind(): EADDRINUSE
RebindErrs == {22}          \* bind() of a descriptor that is bound: EINVAL
ListenErrs == {95}          \* listen(): EOPNOTSUPP
AcceptErrs == {22}          \* accept(): EINVAL
OptErrs == {92}             \* setsockopt(): ENOPROTOOPT
ShutErrs == {107}           \* shutdown(): ENOTCONN
StackErrs == {10091}        \* WSAStartup/WSACleanup: WSASYSNOTREADY
GaiErrs == {-2}             \* getaddrinfo's return value: EAI_NONAME
RecvErrs == {104}           \* recv(): ECONNRESET
\* What GetSocketError() may return when no call of the operation has failed yet:
\* whatever an earlier call of the program left there.
StaleErrs == {0, 4}

\* Objects of different classes share nothing but the OS tables, except that
\* ServerSocket::accept makes a Socket: a run is one calling program. "client":
\* Socket objects; "server": ServerSocket objects and the Sockets they accept;
\* "udp": DatagramSocket; "unix": UnixSocket; "init": SocketInitializer. "connect"
\* is a client that connects; "read" a program that reads from one connection.
Progs == {"client", "server", "udp", "unix", "init"}

\* calls and exc.code are kept in full for the programs in Traced; for the others
\* calls keeps the releases (close, freeaddrinfo, CleanupSockets) and exc whether
\* an exception left the operation.
Traced == {"connect", "read", "send", "reply", "probe", "serve", "construct", "address",
           "dgram", "local"}
Releases == {"close", "freeaddrinfo", "CleanupSockets"}

NoSel == [l |-> nullptr, i |-> 0]
NoExc == [thrown |-> FALSE, code |-> 0]
Thrown(c) == [thrown |-> TRUE, code |-> c]

\* An object slot that holds no object (never constructed, or destroyed).
\* remote_addr and remote_addr_length of a Socket that did not come from accept.
NoRemote == [addr |-> "none", len |-> 0]
NoObj == [kind |-> "none", fd |-> INVALID_SOCKET, ai |-> nullptr, sel |-> NoSel,
          remote |-> NoRemote]

\* A descriptor that is not bound to a port, with no receive timeout and no
\* datagram waiting.
NoUdp == [fam |-> "none", port |-> 0, tmo |-> 0, q |-> <<>>]
\* Nothing returned.
NoOut == <<>>

\* An OS call: its name, its argument (a descriptor, a list, a candidate) and
\* its outcome r (0, or the error it failed with).
Call(op, a, r) == [op |-> op, a |-> a, r |-> r]

(***************************************************************************)
(* The operating system.                                                   *)
(***************************************************************************)
HasFreshFd(st) == \E d \in Fds : st[d] = "unused"
FreshFd(st) == CHOOSE d \in Fds : st[d] = "unused" /\ \A e \in Fds : e < d => st[e] # "unused"
HasFreshAi(st) == \E l \in Ais : st[l] = "unused"
FreshAi(st) == CHOOSE l \in Ais : st[l] = "unused" /\ \A e \in Ais : e < l => st[e] # "unused"

\* Faulty variant, for comparison: an errno that keeps the first error of an operation.
ErrnoKeepsFirst(e, r) == IF e # 0 THEN e ELSE r

\* errno after a call that ended with r (0: success, which leaves errno alone).
ErrnoAfter(e, r) == IF r = 0 THEN e ELSE r

\* The outcomes of CloseSocket(d): 0 or an error; INVALID_SOCKET cannot be closed.
CloseOutcomes(d) == IF d \in Fds THEN {0} \cup CloseErrs ELSE BadFdErrs

\* The descriptor table after CloseSocket(d). A descriptor is "open" from socket()
\* or accept() until it is passed to CloseSocket, then "closed"; "reclosed" once it
\* was passed to CloseSocket again.
CloseSocketSt(st, d) ==
    IF d \notin Fds THEN st
    ELSE [st EXCEPT ![d] = IF st[d] = "open" THEN "closed" ELSE "reclosed"]

\* The list table after freeaddrinfo(l). "refreed": freed a second time.
FreeAddrInfoSt(st, l) ==
    IF l \notin Ais THEN st
    ELSE [st EXCEPT ![l] = IF st[l] = "live" THEN "freed" ELSE "refreed"]

\* socket(): r is the outcome asked of the OS (0 or an error).
socket(st, r) ==
    IF r = 0
    THEN [fd |-> FreshFd(st), st |-> [st EXCEPT ![FreshFd(st)] = "open"], err |-> 0]
    ELSE [fd |-> INVALID_SOCKET, st |-> st, err |-> r]

\* What socket() can return in the descriptor table st: 0 (a new descriptor) while
\* the OS has one left, or an error.
SocketOutcomes(st) == (IF HasFreshFd(st) THEN {0} ELSE {}) \cup SocketErrs

IsOpen(d) == d \in Fds /\ fdSt[d] = "open"

\* What an operation leaves behind: the object, the OS tables, the exception.
Result(me, fs, as, e, x, cs, dg) ==
    [me |-> me, fdSt |-> fs, aiSt |-> as, errno |-> e, exc |-> x, calls |-> cs, diag |-> dg]

\* The program moves from the objects os with the result R of operation op on o
\* (with argument object src).
Step(op, o, src, os, R) ==
    /\ obj' = os
    /\ fdSt' = R.fdSt
    /\ aiSt' = R.aiSt
    /\ exc' = IF prog \in Traced THEN R.exc ELSE [R.exc EXCEPT !.code = 0]
    /\ calls' = IF prog \in Traced THEN R.calls
                ELSE SelectSeq(R.calls, LAMBDA c : c.op \in Releases)
    /\ diag' = R.diag
    /\ lastOp' = [op |-> op, o |-> o, src |-> src]
    /\ UNCHANGED <<prog, ioVars, pairVars>>

\* Operation op on object o ended with R.
Commit(op, o, R) ==
    /\ Step(op, o, o, [obj EXCEPT ![o] = R.me], R)
    /\ UNCHANGED <<stack, sk, resolved>>

\* Operation op on object dst with argument object src ended with R for dst and
\* left src as rhs.
Commit2(op, dst, src, R, rhs) ==
    /\ Step(op, dst, src,
            IF dst = src THEN [obj EXCEPT ![dst] = R.me]
            ELSE [obj EXCEPT ![dst] = R.me, ![src] = rhs], R)
    /\ UNCHANGED <<stack, sk, resolved>>

\* The same in the program "local", where the caller says what becomes of the
\* listeners (k), of the entry at the socket path (p) and of the connection.
LocalStep(op, dst, src, os, R, k, p) ==
    /\ obj' = os
    /\ fdSt' = R.fdSt
    /\ aiSt' = R.aiSt
    /\ exc' = R.exc
    /\ calls' = R.calls
    /\ diag' = R.diag
    /\ lastOp' = [op |-> op, o |-> dst, src |-> src]
    /\ sk' = k
    /\ path' = p
    /\ UNCHANGED <<prog, stack, ioVars, resolved, build, inq, sent, got, buffer, nonBlocking,
                   udp, ret>>

(***************************************************************************)
(* Socket                                                                  *)
(***************************************************************************)
\* The loop of Socket::Socket over the candidates p..n of list l, from the state acc:
\* the states it can end in, one for every way the socket() calls can turn out.
RECURSIVE SocketCreateLoop(_, _, _, _)
SocketCreateLoop(p, n, l, acc) ==
    IF p > n THEN {acc}
    ELSE UNION {
        LET s == socket(acc.fdSt, r)
            nxt == [acc EXCEPT !.me.fd = s.fd,
                               !.fdSt = s.st,
                               !.errno = ErrnoAfter(acc.errno, s.err),
                               !.calls = Append(acc.calls, Call("socket", p, s.err))]
        IN IF s.fd # INVALID_SOCKET
           THEN {[nxt EXCEPT !.me.sel = [l |-> l, i |-> p]]}
           ELSE SocketCreateLoop(p + 1, n, l, nxt)
        : r \in SocketOutcomes(acc.fdSt)}

\* Faulty variant, for comparison: the end of a constructor that connects the descriptor it made.
SocketCtorEndConnects(R) ==
    IF R.me.fd = INVALID_SOCKET
    THEN [R EXCEPT !.me = NoObj,
                   !.aiSt = FreeAddrInfoSt(R.aiSt, R.me.ai),
                   !.calls = Append(R.calls, Call("freeaddrinfo", R.me.ai, 0)),
                   !.exc = Thrown(R.errno)]
    ELSE [R EXCEPT !.calls = Append(R.calls, Call("connect", R.me.sel.i, 0))]

\* The end of Socket::Socket: no descriptor after the loop frees the list and
\* throws, so no object exists afterwards.
SocketCtorEnd(R) ==
    IF R.me.fd = INVALID_SOCKET
    THEN [R EXCEPT !.me = NoObj,
                   !.aiSt = FreeAddrInfoSt(R.aiSt, R.me.ai),
                   !.calls = Append(R.calls, Call("freeaddrinfo", R.me.ai, 0)),
                   !.exc = Thrown(R.errno)]
    ELSE R

\* Socket::Socket(host, port, bufferSize): the states it can end in. e0 is errno
\* at entry, gai is getaddrinfo's return value, n the number of candidates.
SocketCtorFn(e0, gai, n) ==
    IF gai # 0
    THEN {Result(NoObj, fdSt, aiSt, e0, Thrown(e0), <<Call("getaddrinfo", nullptr, gai)>>, FALSE)}
    ELSE LET l == FreshAi(aiSt)
             start == Result([NoObj EXCEPT !.kind = "Socket", !.ai = l], fdSt,
                             [aiSt EXCEPT ![l] = "live"], e0, NoExc,
                             <<Call("getaddrinfo", l, 0)>>, FALSE)
         IN {SocketCtorEnd(R) : R \in SocketCreateLoop(1, n, l, start)}

SocketCtor(o) ==
    /\ prog \in {"client", "connect"}
    /\ obj[o].kind = "none"
    /\ \/ \E e0 \in StaleErrs, gai \in GaiErrs :
          \E R \in SocketCtorFn(e0, gai, 1) : Commit("Socket::Socket", o, R)
       \/ \E n \in 1..MaxCand :
             /\ HasFreshAi(aiSt)
             /\ \E R \in SocketCtorFn(0, 0, n) : Commit("Socket::Socket", o, R)

\* Socket::close(): r is the outcome of CloseSocket.
SocketCloseFn(me, r) ==
    IF me.fd # INVALID_SOCKET /\ r # 0
    THEN Result(me, CloseSocketSt(fdSt, me.fd), aiSt, r, Thrown(r),
                <<Call("close", me.fd, r)>>, FALSE)
    ELSE Result([me EXCEPT !.fd = INVALID_SOCKET, !.ai = nullptr, !.sel = NoSel],
                IF me.fd # INVALID_SOCKET THEN CloseSocketSt(fdSt, me.fd) ELSE fdSt,
                IF me.ai # nullptr THEN FreeAddrInfoSt(aiSt, me.ai) ELSE aiSt,
                0, NoExc,
                (IF me.fd # INVALID_SOCKET THEN <<Call("close", me.fd, 0)>> ELSE <<>>)
                  \o (IF me.ai # nullptr THEN <<Call("freeaddrinfo", me.ai, 0)>> ELSE <<>>),
                FALSE)

SocketClose(o) ==
    /\ prog \in {"client", "connect", "server", "address"}
    /\ obj[o].kind = "Socket"
    /\ \E r \in CloseOutcomes(obj[o].fd) : Commit("Socket::close", o, SocketCloseFn(obj[o], r))

\* Faulty variant, for comparison: a destructor that lets the exception of close() out.
SocketDtorRethrows(me, r) == [SocketCloseFn(me, r) EXCEPT !.me = NoObj]

\* Socket::~Socket(): close(), an exception caught and written to std::cerr.
SocketDtorFn(me, r) ==
    LET R == SocketCloseFn(me, r)
    IN [R EXCEPT !.me = NoObj, !.exc = NoExc, !.diag = R.exc.thrown]

SocketDtor(o) ==
    /\ prog \in {"client", "connect", "server", "serve"}
    /\ obj[o].kind = "Socket"
    /\ \E r \in CloseOutcomes(obj[o].fd) : Commit("Socket::~Socket", o, SocketDtorFn(obj[o], r))

\* Faulty variant, for comparison: a connect() without the guard on the selected candidate.
SocketConnectNoGuard(me, r) ==
    Result(me, fdSt, aiSt, r, IF r # 0 THEN Thrown(r) ELSE NoExc,
           <<Call("connect", me.sel.i, r)>>, FALSE)

\* Socket::connect(): r is the outcome of ::connect on clientSocket, whose argument
\* is the address of the selected candidate.
SocketConnectFn(me, r) ==
    IF me.sel = NoSel
    THEN Result(me, fdSt, aiSt, 0, Thrown(0), <<>>, FALSE)
    ELSE Result(me, fdSt, aiSt, r,
                IF r # 0 THEN Thrown(r) ELSE NoExc,
                <<Call("connect", me.sel.i, r)>>, FALSE)

SocketConnect(o) ==
    /\ prog \in {"connect", "serve", "address"}
    /\ obj[o].kind = "Socket"
    /\ \E r \in {0} \cup ConnectErrs \cup TimeoutErrs :
          /\ r = 0 => IsOpen(obj[o].fd)
          /\ Commit("Socket::connect", o, SocketConnectFn(obj[o], r))

\* void Socket::setTimeout(int millis, bool forConnect): with forConnect it
\* returns at once, nothing called and nothing kept; otherwise it sets SO_RCVTIMEO
\* (outcome r1), then SO_SNDTIMEO (outcome r2), and throws the first failure. The
\* two timeouts live in the OS and bound recv and send.
SocketSetTimeoutFn(me, forConnect, r1, r2) ==
    IF forConnect THEN Result(me, fdSt, aiSt, 0, NoExc, <<>>, FALSE)
    ELSE IF r1 # 0
    THEN Result(me, fdSt, aiSt, r1, Thrown(r1), <<Call("SO_RCVTIMEO", me.fd, r1)>>,
                FALSE)
    ELSE Result(me, fdSt, aiSt, r2, IF r2 # 0 THEN Thrown(r2) ELSE NoExc,
                <<Call("SO_RCVTIMEO", me.fd, 0), Call("SO_SNDTIMEO", me.fd, r2)>>,
                FALSE)

SetTimeout(o) ==
    /\ prog = "connect"
    /\ obj[o].kind = "Socket"
    /\ \E forConnect \in BOOLEAN :
       \E r1, r2 \in (IF IsOpen(obj[o].fd) THEN {0} \cup OptErrs ELSE BadFdErrs) :
          Commit(IF forConnect THEN "Socket::setTimeout(forConnect)" ELSE "Socket::setTimeout",
                 o, SocketSetTimeoutFn(obj[o], forConnect, r1, r2))

\* Socket::Socket(Socket&&): the fields of rhs, rhs left empty.
SocketMoveCtorFn(rhs) ==
    Result([NoObj EXCEPT !.kind = "Socket", !.fd = rhs.fd, !.ai = rhs.ai, !.sel = rhs.sel,
                         !.remote = rhs.remote],
           fdSt, aiSt, 0, NoExc, <<>>, FALSE)

\* What a Socket move leaves in rhs.
SocketMovedFrom(rhs) == [rhs EXCEPT !.fd = INVALID_SOCKET, !.ai = nullptr, !.sel = NoSel]

SocketMoveCtor(dst, src) ==
    /\ prog \in {"client", "connect"}
    /\ dst # src
    /\ obj[dst].kind = "none"
    /\ obj[src].kind = "Socket"
    /\ Commit2("Socket::Socket(Socket&&)", dst, src, SocketMoveCtorFn(obj[src]),
               SocketMovedFrom(obj[src]))

\* Faulty variant, for comparison: a move assignment that drops the list it held
\* without freeing it.
SocketMoveAssignLeaksList(me, rhs, r) ==
    Result([me EXCEPT !.fd = rhs.fd, !.ai = rhs.ai, !.sel = rhs.sel, !.remote = rhs.remote],
           IF me.fd # INVALID_SOCKET THEN CloseSocketSt(fdSt, me.fd) ELSE fdSt,
           aiSt,
           IF me.fd # INVALID_SOCKET THEN r ELSE 0,
           NoExc,
           IF me.fd # INVALID_SOCKET THEN <<Call("close", me.fd, r)>> ELSE <<>>,
           me.fd # INVALID_SOCKET /\ r # 0)

\* Socket::operator=(Socket&&) with this != &rhs: r is the outcome of CloseSocket,
\* whose failure is written to std::cerr.
SocketMoveAssignFn(me, rhs, r) ==
    Result([me EXCEPT !.fd = rhs.fd, !.ai = rhs.ai, !.sel = rhs.sel, !.remote = rhs.remote],
           IF me.fd # INVALID_SOCKET THEN CloseSocketSt(fdSt, me.fd) ELSE fdSt,
           IF me.ai # nullptr THEN FreeAddrInfoSt(aiSt, me.ai) ELSE aiSt,
           IF me.fd # INVALID_SOCKET THEN r ELSE 0,
           NoExc,
           (IF me.fd # INVALID_SOCKET THEN <<Call("close", me.fd, r)>> ELSE <<>>)
             \o (IF me.ai # nullptr THEN <<Call("freeaddrinfo", me.ai, 0)>> ELSE <<>>),
           me.fd # INVALID_SOCKET /\ r # 0)

SocketMoveAssign(dst, src) ==
    /\ prog = "client"
    /\ obj[dst].kind = "Socket"
    /\ obj[src].kind = "Socket"
    /\ IF dst = src
       THEN Commit2("Socket::operator=", dst, src,
                    Result(obj[dst], fdSt, aiSt, 0, NoExc, <<>>, FALSE), obj[src])
       ELSE \E r \in CloseOutcomes(obj[dst].fd) :
               Commit2("Socket::operator=", dst, src,
                       SocketMoveAssignFn(obj[dst], obj[src], r), SocketMovedFrom(obj[src]))

(***************************************************************************)
(* ServerSocket                                                            *)
(***************************************************************************)
\* One loop of ServerSocket::ServerSocket: the candidates p..n of list l whose
\* family is fam, in list order; fams[p] is the family of candidate p. The states
\* it can end in.
RECURSIVE ServerCreateLoop(_, _, _, _, _, _)
ServerCreateLoop(p, n, fam, fams, l, acc) ==
    IF p > n THEN {acc}
    ELSE IF fams[p] # fam THEN ServerCreateLoop(p + 1, n, fam, fams, l, acc)
    ELSE UNION {
        LET s == socket(acc.fdSt, r)
            nxt == [acc EXCEPT !.me.fd = s.fd,
                               !.fdSt = s.st,
                               !.errno = ErrnoAfter(acc.errno, s.err),
                               !.calls = Append(acc.calls, Call("socket", p, s.err))]
        IN IF s.fd = INVALID_SOCKET
           THEN ServerCreateLoop(p + 1, n, fam, fams, l, nxt)
           ELSE {[nxt EXCEPT !.me.sel = [l |-> l, i |-> p]]}
        : r \in SocketOutcomes(acc.fdSt)}

\* ServerSocket::cleanupAndThrow(errorCode) in the constructor: the list is freed,
\* the exception leaves the constructor, so no object exists afterwards.
cleanupAndThrow(R, errorCode) ==
    [R EXCEPT !.me = NoObj,
              !.aiSt = FreeAddrInfoSt(R.aiSt, R.me.ai),
              !.calls = Append(R.calls, Call("freeaddrinfo", R.me.ai, 0)),
              !.exc = Thrown(errorCode)]

\* setsockopt(name) on the descriptor of R with outcome r; a failure is followed by
\* cleanupAndThrow(GetSocketError()).
SetSockOpt(R, name, r) ==
    LET S == [R EXCEPT !.errno = ErrnoAfter(R.errno, r),
                       !.calls = Append(R.calls, Call(name, R.me.fd, r))]
    IN IF r # 0 THEN cleanupAndThrow(S, S.errno) ELSE S

\* The IPv6 pass of the constructor with its setsockopt(IPV6_V6ONLY).
ServerV6Pass(n, fams, l, start) ==
    UNION {IF R.me.fd = INVALID_SOCKET THEN {R}
           ELSE {SetSockOpt(R, "IPV6_V6ONLY", v6) : v6 \in {0} \cup OptErrs}
           : R \in ServerCreateLoop(1, n, AF_INET6, fams, l, start)}

\* Faulty variant, for comparison: an IPv4 pass made whatever the IPv6 pass left.
ServerV4PassAlways(n, fams, l, R) ==
    IF R.exc.thrown THEN {R} ELSE ServerCreateLoop(1, n, AF_INET, fams, l, R)

\* The IPv4 pass, made when the IPv6 pass left no descriptor.
ServerV4Pass(n, fams, l, R) ==
    IF R.exc.thrown \/ R.me.fd # INVALID_SOCKET THEN {R}
    ELSE ServerCreateLoop(1, n, AF_INET, fams, l, R)

\* The end of the constructor: no descriptor throws; else the reuse option is set.
ServerCtorEnd(R) ==
    IF R.exc.thrown THEN {R}
    ELSE IF R.me.fd = INVALID_SOCKET THEN {cleanupAndThrow(R, R.errno)}
    ELSE {SetSockOpt(R, "SO_REUSEADDR", ru) : ru \in {0} \cup OptErrs}

\* ServerSocket::ServerSocket(port): the states it can end in.
ServerCtorFn(e0, gai, n, fams) ==
    IF gai # 0
    THEN {Result(NoObj, fdSt, aiSt, e0, Thrown(e0), <<Call("getaddrinfo", nullptr, gai)>>, FALSE)}
    ELSE LET l == FreshAi(aiSt)
             start == Result([NoObj EXCEPT !.kind = "ServerSocket", !.ai = l], fdSt,
                             [aiSt EXCEPT ![l] = "live"], e0, NoExc,
                             <<Call("getaddrinfo", l, 0)>>, FALSE)
         IN UNION {UNION {ServerCtorEnd(R4) : R4 \in ServerV4Pass(n, fams, l, R6)}
                   : R6 \in ServerV6Pass(n, fams, l, start)}

ServerCtor(o) ==
    /\ prog \in {"server", "construct"}
    /\ obj[o].kind = "none"
    /\ \/ \E e0 \in StaleErrs, gai \in GaiErrs :
          \E R \in ServerCtorFn(e0, gai, 1, <<AF_INET>>) :
             Commit("ServerSocket::ServerSocket", o, R)
       \/ \E n \in 1..MaxCand : \E fams \in [1..n -> {AF_INET, AF_INET6}] :
             /\ HasFreshAi(aiSt)
             /\ \E R \in ServerCtorFn(0, 0, n, fams) :
                   /\ Step("ServerSocket::ServerSocket", o, o, [obj EXCEPT ![o] = R.me], R)
                   /\ resolved' = IF prog \in Traced
                                  THEN [l \in Ais |->
                                          IF l = FreshAi(aiSt) THEN fams
                                          ELSE <<>>]
                                  ELSE resolved
                   /\ UNCHANGED <<stack, sk>>

\* Faulty variant, for comparison: a close() that lets the failure of shutdown()
\* out and leaves the descriptor alone.
ServerCloseShutdownThrows(me, sh, r) ==
    IF me.fd = INVALID_SOCKET
    THEN Result(me, fdSt, aiSt, 0, NoExc, <<>>, FALSE)
    ELSE IF sh # 0
    THEN Result(me, fdSt, aiSt, sh, Thrown(sh), <<Call("shutdown", me.fd, sh)>>, FALSE)
    ELSE IF r # 0
    THEN Result(me, CloseSocketSt(fdSt, me.fd), aiSt, r, Thrown(r),
                <<Call("shutdown", me.fd, sh), Call("close", me.fd, r)>>, FALSE)
    ELSE Result([me EXCEPT !.fd = INVALID_SOCKET],
                CloseSocketSt(fdSt, me.fd), aiSt, sh, NoExc,
                <<Call("shutdown", me.fd, sh), Call("close", me.fd, 0)>>, FALSE)

\* ServerSocket::close(): sh is the outcome of ::shutdown (ignored), r of CloseSocket.
ServerCloseFn(me, sh, r) ==
    IF me.fd = INVALID_SOCKET
    THEN Result(me, fdSt, aiSt, 0, NoExc, <<>>, FALSE)
    ELSE IF r # 0
    THEN Result(me, CloseSocketSt(fdSt, me.fd), aiSt, r, Thrown(r),
                <<Call("shutdown", me.fd, sh), Call("close", me.fd, r)>>, FALSE)
    ELSE Result([me EXCEPT !.fd = INVALID_SOCKET],
                CloseSocketSt(fdSt, me.fd), aiSt, sh, NoExc,
                <<Call("shutdown", me.fd, sh), Call("close", me.fd, 0)>>, FALSE)

\* What ::shutdown can return on descriptor d: success only while d is open.
ShutdownOutcomes(d) == (IF IsOpen(d) THEN {0} ELSE {}) \cup ShutErrs

ServerClose(o) ==
    /\ prog \in {"server", "serve"}
    /\ obj[o].kind = "ServerSocket"
    /\ \E sh \in ShutdownOutcomes(obj[o].fd), r \in CloseOutcomes(obj[o].fd) :
          Commit("ServerSocket::close", o, ServerCloseFn(obj[o], sh, r))

\* ServerSocket::~ServerSocket(): close() with its exception caught and written to
\* std::cerr, then the list freed.
ServerDtorFn(me, sh, r) ==
    LET R == ServerCloseFn(me, sh, r)
    IN [R EXCEPT !.me = NoObj, !.exc = NoExc, !.diag = R.exc.thrown,
                 !.aiSt = IF me.ai # nullptr THEN FreeAddrInfoSt(R.aiSt, me.ai) ELSE R.aiSt,
                 !.calls = IF me.ai # nullptr
                           THEN Append(R.calls, Call("freeaddrinfo", me.ai, 0)) ELSE R.calls]

ServerDtor(o) ==
    /\ prog \in {"server", "construct"}
    /\ obj[o].kind = "ServerSocket"
    /\ \E sh \in ShutdownOutcomes(obj[o].fd), r \in CloseOutcomes(obj[o].fd) :
          Commit("ServerSocket::~ServerSocket", o, ServerDtorFn(obj[o], sh, r))

\* ServerSocket::ServerSocket(ServerSocket&&): serverSocket, srv_addrinfo and port
\* are taken from rhs; selectedAddrInfo keeps its default member initializer.
ServerMoveCtorFn(rhs) ==
    Result([NoObj EXCEPT !.kind = "ServerSocket", !.fd = rhs.fd, !.ai = rhs.ai],
           fdSt, aiSt, 0, NoExc, <<>>, FALSE)

\* What the ServerSocket move constructor leaves in rhs.
ServerMovedFrom(rhs) == [rhs EXCEPT !.fd = INVALID_SOCKET, !.ai = nullptr]

ServerMoveCtor(dst, src) ==
    /\ prog \in {"server", "serve"}
    /\ dst # src
    /\ obj[dst].kind = "none"
    /\ obj[src].kind = "ServerSocket"
    /\ Commit2("ServerSocket::ServerSocket(ServerSocket&&)", dst, src,
               ServerMoveCtorFn(obj[src]), ServerMovedFrom(obj[src]))

\* The peers that connect to a listening descriptor, by the family of their
\* address, and the length ::accept reports for such an address (sockaddr_in,
\* sockaddr_in6).
Peers == {"v4", "v6"}
AddrLen(p) == IF p = "v4" THEN 16 ELSE 28

\* Faulty variant, for comparison: an accepted Socket that drops the peer address.
SocketFromAcceptNoAddr(client, addr, len) == [NoObj EXCEPT !.kind = "Socket", !.fd = client]

\* Socket::Socket(SOCKET client, sockaddr_storage addr, socklen_t len)
SocketFromAccept(client, addr, len) ==
    [NoObj EXCEPT !.kind = "Socket", !.fd = client, !.remote = [addr |-> addr, len |-> len]]

\* Faulty variant, for comparison: an accept that hands out the listening
\* descriptor itself.
ServerAcceptOwnFd(me, r, p) ==
    IF r # 0
    THEN Result(NoObj, fdSt, aiSt, r, Thrown(r), <<Call("accept", me.fd, r)>>, FALSE)
    ELSE Result(SocketFromAccept(me.fd, p, AddrLen(p)), fdSt, aiSt, 0, NoExc,
                <<Call("accept", me.fd, 0)>>, FALSE)

\* ServerSocket::accept(): r is the outcome of ::accept, p the peer whose
\* connection it took. The Socket returned is R.me; the ServerSocket itself is not
\* written.
ServerAcceptFn(me, r, p) ==
    IF r # 0
    THEN Result(NoObj, fdSt, aiSt, r, Thrown(r), <<Call("accept", me.fd, r)>>, FALSE)
    ELSE LET s == socket(fdSt, 0)
         IN Result(SocketFromAccept(s.fd, p, AddrLen(p)), s.st, aiSt, 0, NoExc,
                   <<Call("accept", me.fd, 0)>>, FALSE)

\* The peers whose connection ::accept can return on descriptor d: the first of
\* those waiting on d, which must be listening. The lifecycle program "server"
\* follows neither bind and listen nor the connections that arrive: there every
\* open descriptor is taken to listen, with a peer waiting.
Acceptable(d) ==
    IF ~(IsOpen(d) /\ HasFreshFd(fdSt)) THEN {}
    ELSE IF prog = "server" THEN {"v4"}
    ELSE IF sk[d].st = "listening" /\ sk[d].q # <<>> THEN {Head(sk[d].q)}
    ELSE {}

\* The listening descriptors after ::accept took the first connection waiting on d.
Accepted(d) ==
    IF prog = "server" THEN sk ELSE [sk EXCEPT ![d].q = Tail(@)]

\* Socket dst = srv.accept(); with no connection to take, ::accept fails or waits.
ServerAccept(srv, dst) ==
    /\ prog \in {"server", "serve"}
    /\ obj[srv].kind = "ServerSocket"
    /\ obj[dst].kind = "none"
    /\ \/ \E p \in Acceptable(obj[srv].fd) :
             /\ Step("ServerSocket::accept", dst, srv,
                     [obj EXCEPT ![dst] = ServerAcceptFn(obj[srv], 0, p).me],
                     ServerAcceptFn(obj[srv], 0, p))
             /\ sk' = Accepted(obj[srv].fd)
             /\ UNCHANGED <<stack, resolved>>
       \/ \E r \in (IF obj[srv].fd \in Fds THEN AcceptErrs ELSE BadFdErrs) :
             Commit2("ServerSocket::accept", dst, srv, ServerAcceptFn(obj[srv], r, "v4"),
                     obj[srv])

\* What ::bind can return on descriptor d: success on an open descriptor that is
\* not bound yet.
BindOutcomes(d) ==
    IF ~IsOpen(d) THEN BadFdErrs
    ELSE IF sk[d].st = "fresh" THEN {0} \cup BindErrs
    ELSE RebindErrs

\* void ServerSocket::bind(): with no selected candidate it throws code 0; else r
\* is the outcome of ::bind on serverSocket, to the address of the candidate, and
\* a failure throws the OS error.
ServerBindFn(me, r) ==
    IF me.sel = NoSel
    THEN Result(me, fdSt, aiSt, 0, Thrown(0), <<>>, FALSE)
    ELSE Result(me, fdSt, aiSt, r, IF r # 0 THEN Thrown(r) ELSE NoExc,
                <<Call("bind", me.sel.i, r)>>, FALSE)

ServerBind(o) ==
    /\ prog = "serve"
    /\ obj[o].kind = "ServerSocket"
    /\ \E r \in BindOutcomes(obj[o].fd) :
          /\ Step("ServerSocket::bind", o, o, [obj EXCEPT ![o] = ServerBindFn(obj[o], r).me],
                  ServerBindFn(obj[o], r))
          /\ sk' = IF obj[o].sel # NoSel /\ r = 0
                   THEN [sk EXCEPT ![obj[o].fd].st = "bound"] ELSE sk
          /\ UNCHANGED <<stack, resolved>>

\* What ::listen can return on descriptor d. On a descriptor that was never bound
\* the OS either refuses (Windows) or binds it to a port of its own choice and
\* listens there (Linux, BSD).
ListenOutcomes(d) == IF ~IsOpen(d) THEN BadFdErrs ELSE {0} \cup ListenErrs

\* void ServerSocket::listen(int backlog): r is the outcome of ::listen on
\* serverSocket; a failure throws the OS error.
ServerListenFn(me, r) ==
    Result(me, fdSt, aiSt, r, IF r # 0 THEN Thrown(r) ELSE NoExc,
           <<Call("listen", me.fd, r)>>, FALSE)

ServerListen(o) ==
    /\ prog = "serve"
    /\ obj[o].kind = "ServerSocket"
    /\ \E r \in ListenOutcomes(obj[o].fd) :
          /\ Step("ServerSocket::listen", o, o,
                  [obj EXCEPT ![o] = ServerListenFn(obj[o], r).me], ServerListenFn(obj[o], r))
          /\ sk' = IF r = 0 THEN [sk EXCEPT ![obj[o].fd].st = "listening"] ELSE sk
          /\ UNCHANGED <<stack, resolved>>

\* A peer connects to a listening descriptor: its connection waits to be accepted.
\* In the program "local" the peer is a UnixSocket client of another process
\* that connects to the socket path, which must be there.
PeerConnect ==
    /\ prog \in {"serve", "local"}
    /\ prog = "local" => path = "bound"
    /\ \E d \in Fds, p \in IF prog = "local" THEN {"unix"} ELSE Peers :
          /\ IsOpen(d)
          /\ sk[d].st = "listening"
          /\ Len(sk[d].q) < MaxPending
          /\ sk' = [sk EXCEPT ![d].q = Append(@, p)]
    /\ UNCHANGED <<prog, obj, fdSt, aiSt, calls, exc, diag, lastOp, stack, ioVars, resolved, pairVars>>

(***************************************************************************)
(* Peer addresses as text                                                  *)
(***************************************************************************)
\* The addresses a sockaddr_storage can hold: an IPv4 address, an IPv6 address, and
\* the IPv6 form of an IPv4 address (::ffff:a.b.c.d) a dual-stack listener sees.
Addrs == Peers \cup {"v4mapped"}
\* getnameinfo's return value when it fails: EAI_FAIL.
NameInfoErrs == {-4}

\* The ports of the peers and senders outside the program.
ForeignPorts == {40000}

\* The sockaddr an address stands for: family, address bytes and port. "v4mapped"
\* is the peer "v4" as a dual-stack listener sees it.
Sockaddr(a) ==
    LET p == CHOOSE q \in ForeignPorts : TRUE
    IN IF a = "v4" THEN [family |-> "AF_INET", host |-> <<127, 0, 0, 1>>, port |-> p]
       ELSE IF a = "v4mapped"
       THEN [family |-> "AF_INET6", port |-> p,
             host |-> <<0, 0, 0, 0, 0, 0, 0, 0, 0, 0, 255, 255, 127, 0, 0, 1>>]
       ELSE [family |-> "AF_INET6", port |-> p,
             host |-> <<0, 0, 0, 0, 0, 0, 0, 0, 0, 0, 0, 0, 0, 0, 0, 1>>]
\* The address that stands for the sockaddr sa.
AddrOf(sa) == CHOOSE a \in Addrs : Sockaddr(a) = sa

\* IN6_IS_ADDR_V4MAPPED: the first 80 bits are zero and the next 16 are ones.
IN6_IS_ADDR_V4MAPPED(h) == (\A i \in 1..10 : h[i] = 0) /\ h[11] = 255 /\ h[12] = 255

\* The port as decimal text (getnameinfo with NI_NUMERICSERV).
RECURSIVE Digits(_)
Digits(p) == IF p < 10 THEN <<p>> ELSE Append(Digits(p \div 10), p % 10)

\* getnameinfo(addr, NI_NUMERICHOST | NI_NUMERICSERV) with outcome gn: the host
\* text of the address in its own family's notation; when it fails the buffers
\* are left as they were, which the callers never initialised.
getnameinfo(addr, gn) ==
    IF gn # 0 THEN "indeterminate"
    ELSE IF addr = "v4" THEN "dotted-quad"
    ELSE IF addr = "v6" THEN "colon-hex"
    ELSE "colon-hex of ::ffff:dotted-quad"

\* std::string Socket::getRemoteSocketAddress() const: "null" while
\* remote_addr_length is 0; else an IPv4-mapped remote_addr is rewritten in place
\* as the IPv4 address, and the text is getnameinfo's host, ":" and port.
\* Faulty variant, for comparison: remote_addr is formatted as it was cached.
SocketGetRemoteSocketAddressAsCached(me, gn) ==
    IF me.remote.len > 0
    THEN [me |-> me, calls |-> <<Call("getnameinfo", me.remote.addr, gn)>>,
          text |-> <<getnameinfo(me.remote.addr, gn), ":",
                     IF gn = 0 THEN Digits(Sockaddr(me.remote.addr).port) ELSE <<>>>>]
    ELSE [me |-> me, calls |-> <<>>, text |-> <<"null">>]

SocketGetRemoteSocketAddressFn(me, gn) ==
    IF me.remote.len > 0
    THEN LET sa == Sockaddr(me.remote.addr)
             mapped == sa.family = "AF_INET6" /\ IN6_IS_ADDR_V4MAPPED(sa.host)
             addr4 == [family |-> "AF_INET", port |-> sa.port, host |-> SubSeq(sa.host, 13, 16)]
             a == IF mapped THEN AddrOf(addr4) ELSE me.remote.addr
         IN [me |-> [me EXCEPT !.remote = [addr |-> a, len |-> AddrLen(a)]],
             calls |-> (IF mapped THEN <<Call("memcpy", "remote_addr", 0)>> ELSE <<>>)
                       \o <<Call("getnameinfo", a, gn)>>,
             text |-> <<getnameinfo(a, gn), ":",
                        IF gn = 0 THEN Digits(Sockaddr(a).port) ELSE <<>>>>]
    ELSE [me |-> me, calls |-> <<>>, text |-> <<"null">>]

GetRemoteSocketAddress(o) ==
    /\ prog = "address"
    /\ obj[o].kind = "Socket"
    /\ \E gn \in {0} \cup NameInfoErrs :
          LET R == SocketGetRemoteSocketAddressFn(obj[o], gn)
          IN /\ obj' = [obj EXCEPT ![o] = R.me]
             /\ calls' = R.calls
             /\ ret' = R.text
             /\ exc' = NoExc
             /\ diag' = FALSE
             /\ lastOp' = [op |-> "Socket::getRemoteSocketAddress", o |-> o, src |-> o]
             /\ UNCHANGED <<prog, fdSt, aiSt, stack, ioVars, sk, resolved, build, inq, sent,
                            got, buffer, nonBlocking, path, udp>>

(***************************************************************************)
(* DatagramSocket                                                          *)
(***************************************************************************)
\* A DatagramSocket with its default member initializers.
DatagramNew == [NoObj EXCEPT !.kind = "DatagramSocket"]

\* DatagramSocket::bind(port): gai is getaddrinfo's return value, r the outcome of
\* socket(), rb of ::bind. addrinfo_ptr and sockfd are assigned over what they held.
DatagramBindFn(me, e0, gai, r, rb) ==
    IF gai # 0
    THEN Result(me, fdSt, aiSt, e0, Thrown(e0), <<Call("getaddrinfo", nullptr, gai)>>, FALSE)
    ELSE LET l == FreshAi(aiSt)
             as == [aiSt EXCEPT ![l] = "live"]
             s == socket(fdSt, r)
             m == [me EXCEPT !.ai = l, !.fd = s.fd]
             cs == <<Call("getaddrinfo", l, 0), Call("socket", 1, s.err)>>
         IN IF s.fd = INVALID_SOCKET
            THEN Result(m, s.st, as, s.err, Thrown(s.err), cs, FALSE)
            ELSE Result(m, s.st, as, rb, IF rb # 0 THEN Thrown(rb) ELSE NoExc,
                        Append(cs, Call("bind", s.fd, rb)), FALSE)

\* The outcomes (gai, r, rb) the OS can give the calls of bind(port).
BindInputs ==
    {<<gai, 0, 0>> : gai \in GaiErrs}
    \cup (IF HasFreshAi(aiSt) THEN {<<0, r, 0>> : r \in SocketErrs} ELSE {})
    \cup (IF HasFreshAi(aiSt) /\ HasFreshFd(fdSt)
          THEN {<<0, 0, rb>> : rb \in {0} \cup BindErrs} ELSE {})

DatagramBind(o) ==
    /\ prog = "udp"
    /\ obj[o].kind = "DatagramSocket"
    /\ \E e0 \in StaleErrs, i \in BindInputs :
          Commit("DatagramSocket::bind", o, DatagramBindFn(obj[o], e0, i[1], i[2], i[3]))

\* DatagramSocket::DatagramSocket()
DatagramCtor(o) ==
    /\ prog = "udp"
    /\ obj[o].kind = "none"
    /\ Commit("DatagramSocket::DatagramSocket()", o,
              Result(DatagramNew, fdSt, aiSt, 0, NoExc, <<>>, FALSE))

\* DatagramSocket::DatagramSocket(port): bind(port); an exception leaves the
\* constructor, so no object exists afterwards and no destructor runs.
DatagramCtorPortFn(e0, gai, r, rb) ==
    LET R == DatagramBindFn(DatagramNew, e0, gai, r, rb)
    IN IF R.exc.thrown THEN [R EXCEPT !.me = NoObj] ELSE R

DatagramCtorPort(o) ==
    /\ prog = "udp"
    /\ obj[o].kind = "none"
    /\ \E e0 \in StaleErrs, i \in BindInputs :
          Commit("DatagramSocket::DatagramSocket(port)", o,
                 DatagramCtorPortFn(e0, i[1], i[2], i[3]))

\* DatagramSocket::DatagramSocket(host, port): getaddrinfo, then socket().
DatagramCtorHostFn(e0, gai, r) ==
    IF gai # 0
    THEN Result(NoObj, fdSt, aiSt, e0, Thrown(e0), <<Call("getaddrinfo", nullptr, gai)>>, FALSE)
    ELSE LET l == FreshAi(aiSt)
             as == [aiSt EXCEPT ![l] = "live"]
             s == socket(fdSt, r)
             cs == <<Call("getaddrinfo", l, 0), Call("socket", 1, s.err)>>
         IN IF s.fd = INVALID_SOCKET
            THEN Result(NoObj, s.st, as, s.err, Thrown(s.err), cs, FALSE)
            ELSE Result([DatagramNew EXCEPT !.ai = l, !.fd = s.fd], s.st, as, 0, NoExc, cs, FALSE)

DatagramCtorHost(o) ==
    /\ prog = "udp"
    /\ obj[o].kind = "none"
    /\ \E e0 \in StaleErrs, i \in {j \in BindInputs : j[3] = 0} :
          Commit("DatagramSocket::DatagramSocket(host, port)", o,
                 DatagramCtorHostFn(e0, i[1], i[2]))

\* DatagramSocket::close(): c is the outcome of CloseSocket, which is not looked at.
DatagramCloseFn(me, c) ==
    IF me.fd = INVALID_SOCKET
    THEN Result(me, fdSt, aiSt, 0, NoExc, <<>>, FALSE)
    ELSE Result([me EXCEPT !.fd = INVALID_SOCKET], CloseSocketSt(fdSt, me.fd), aiSt, c,
                NoExc, <<Call("close", me.fd, c)>>, FALSE)

DatagramClose(o) ==
    /\ prog = "udp"
    /\ obj[o].kind = "DatagramSocket"
    /\ \E c \in CloseOutcomes(obj[o].fd) :
          Commit("DatagramSocket::close", o, DatagramCloseFn(obj[o], c))

\* DatagramSocket::~DatagramSocket(): close(), then the list freed.
DatagramDtorFn(me, c) ==
    LET R == DatagramCloseFn(me, c)
    IN [R EXCEPT !.me = NoObj,
                 !.aiSt = IF me.ai # nullptr THEN FreeAddrInfoSt(R.aiSt, me.ai) ELSE R.aiSt,
                 !.calls = IF me.ai # nullptr
                           THEN Append(R.calls, Call("freeaddrinfo", me.ai, 0)) ELSE R.calls]

DatagramDtor(o) ==
    /\ prog = "udp"
    /\ obj[o].kind = "DatagramSocket"
    /\ \E c \in CloseOutcomes(obj[o].fd) :
          Commit("DatagramSocket::~DatagramSocket", o, DatagramDtorFn(obj[o], c))

\* DatagramSocket(DatagramSocket&&) = default: every member is taken from rhs.
DatagramMoveCtorFn(rhs) ==
    Result([DatagramNew EXCEPT !.fd = rhs.fd, !.ai = rhs.ai], fdSt, aiSt, 0, NoExc, <<>>, FALSE)

\* What a defaulted move leaves in rhs: a moved-from SOCKET or pointer member
\* keeps its value.
DatagramMovedFrom(rhs) == rhs

DatagramMoveCtor(dst, src) ==
    /\ prog = "udp"
    /\ dst # src
    /\ obj[dst].kind = "none"
    /\ obj[src].kind = "DatagramSocket"
    /\ Commit2("DatagramSocket::DatagramSocket(DatagramSocket&&)", dst, src,
               DatagramMoveCtorFn(obj[src]), DatagramMovedFrom(obj[src]))

\* DatagramSocket& operator=(DatagramSocket&&) = default: every member is
\* assigned from rhs over what it held.
DatagramMoveAssignFn(me, rhs) ==
    Result([me EXCEPT !.fd = rhs.fd, !.ai = rhs.ai], fdSt, aiSt, 0, NoExc, <<>>, FALSE)

DatagramMoveAssign(dst, src) ==
    /\ prog = "udp"
    /\ dst # src
    /\ obj[dst].kind = "DatagramSocket"
    /\ obj[src].kind = "DatagramSocket"
    /\ Commit2("DatagramSocket::operator=", dst, src,
               DatagramMoveAssignFn(obj[dst], obj[src]), DatagramMovedFrom(obj[src]))

(***************************************************************************)
(* UnixSocket                                                              *)
(***************************************************************************)
\* UnixSocket::UnixSocket()
UnixNew == [NoObj EXCEPT !.kind = "UnixSocket"]

UnixCtor(o) ==
    /\ prog = "unix"
    /\ obj[o].kind = "none"
    /\ Commit("UnixSocket::UnixSocket()", o, Result(UnixNew, fdSt, aiSt, 0, NoExc, <<>>, FALSE))

\* UnixSocket::UnixSocket(path, server): r is the outcome of socket().
UnixCtorPathFn(r) ==
    LET s == socket(fdSt, r)
    IN IF s.fd = INVALID_SOCKET
       THEN Result(NoObj, s.st, aiSt, s.err, Thrown(s.err), <<Call("socket", 1, s.err)>>, FALSE)
       ELSE Result([UnixNew EXCEPT !.fd = s.fd], s.st, aiSt, 0, NoExc,
                   <<Call("socket", 1, 0)>>, FALSE)

UnixCtorPath(o) ==
    /\ prog \in {"unix", "local"}
    /\ obj[o].kind = "none"
    /\ \E r \in SocketOutcomes(fdSt) :
          Commit("UnixSocket::UnixSocket(path, server)", o, UnixCtorPathFn(r))

\* The body shared by UnixSocket::bind, listen and connect: the OS call name on
\* sockfd with outcome r; on failure CloseSocket(sockfd) with outcome c, sockfd
\* left as it is, and GetSocketError() thrown.
UnixCallOrClose(me, name, r, c) ==
    IF r = 0
    THEN Result(me, fdSt, aiSt, 0, NoExc, <<Call(name, me.fd, 0)>>, FALSE)
    ELSE Result(me, CloseSocketSt(fdSt, me.fd), aiSt, ErrnoAfter(r, c),
                Thrown(ErrnoAfter(r, c)),
                <<Call(name, me.fd, r), Call("close", me.fd, c)>>, FALSE)

\* Faulty variant, for comparison: a bind() that removes nothing first.
UnixBindKeepsEntry(me, u, r, c) == UnixCallOrClose(me, "bind", r, c)

\* UnixSocket::bind(): unlink(socket_path) with outcome u, which is not looked at,
\* then ::bind with outcome r.
UnixBindFn(me, u, r, c) ==
    LET R == UnixCallOrClose(me, "bind", r, c)
    IN [R EXCEPT !.calls = <<Call("unlink", "socket_path", u)>> \o @]

\* What unlink(socket_path) can return: ENOENT when nothing is there; else the
\* entry is removed, or the directory does not allow it (EACCES).
UnlinkErrs == {13}
NoEntryErrs == {2}
UnlinkOutcomes == IF path = "absent" THEN NoEntryErrs ELSE {0} \cup UnlinkErrs
\* The entry at socket_path after the calls cs: gone once an unlink succeeded,
\* made by a ::bind that succeeded.
PathAfter(cs) ==
    IF \E i \in DOMAIN cs : cs[i].op = "bind" /\ cs[i].r = 0 THEN "bound"
    ELSE IF \E i \in DOMAIN cs : cs[i].op = "unlink" /\ cs[i].r = 0 THEN "absent"
    ELSE path
\* What ::bind to socket_path can return on descriptor d when the entry there is
\* e: EBADF on a descriptor that is not open, EADDRINUSE while an entry exists,
\* EINVAL on a descriptor that is bound, else success.
UnixBindOutcomes(d, e) ==
    IF ~IsOpen(d) THEN BadFdErrs
    ELSE IF e # "absent" THEN BindErrs
    ELSE IF sk[d].st # "fresh" THEN RebindErrs
    ELSE {0}
\* UnixSocket::listen(backlog)
UnixListenFn(me, r, c) == UnixCallOrClose(me, "listen", r, c)
\* UnixSocket::connect()
UnixConnectFn(me, r, c) == UnixCallOrClose(me, "connect", r, c)

\* The outcomes (r, c) of an OS call on descriptor d that succeeds only while d is
\* open, and of the CloseSocket(d) that follows its failure.
CallOutcomes(d, errs) ==
    (IF IsOpen(d) THEN {<<0, 0>>} ELSE {}) \cup (errs \X CloseOutcomes(d))

\* In the program "unix" the filesystem is not followed: ::bind succeeds or not.
\* In the program "local" it is: ::bind meets what the calls before it left at
\* socket_path.
UnixBind(o) ==
    /\ prog \in {"unix", "local"}
    /\ obj[o].kind = "UnixSocket"
    /\ IF prog = "unix"
       THEN \E i \in CallOutcomes(obj[o].fd, BindErrs) :
               Commit("UnixSocket::bind", o, UnixBindFn(obj[o], 0, i[1], i[2]))
       ELSE \E u \in UnlinkOutcomes, r \in {0} \cup BadFdErrs \cup BindErrs \cup RebindErrs,
               c \in CloseOutcomes(obj[o].fd) :
               LET R == UnixBindFn(obj[o], u, r, c)
                   before == SubSeq(R.calls, 1, Len(R.calls) - (IF r = 0 THEN 1 ELSE 2))
               IN /\ r \in UnixBindOutcomes(obj[o].fd, PathAfter(before))
                  /\ r = 0 => c = 0
                  /\ LocalStep("UnixSocket::bind", o, o, [obj EXCEPT ![o] = R.me], R,
                               IF r = 0 THEN [sk EXCEPT ![obj[o].fd].st = "bound"] ELSE sk,
                               PathAfter(R.calls))

\* In the program "local" listen succeeds on a descriptor that is bound.
UnixListen(o) ==
    /\ prog \in {"unix", "local"}
    /\ obj[o].kind = "UnixSocket"
    /\ \E i \in CallOutcomes(obj[o].fd, ListenErrs) :
          LET R == UnixListenFn(obj[o], i[1], i[2])
          IN IF prog = "unix"
             THEN Commit("UnixSocket::listen", o, R)
             ELSE /\ i[1] = 0 => sk[obj[o].fd].st # "fresh"
                  /\ LocalStep("UnixSocket::listen", o, o, [obj EXCEPT ![o] = R.me], R,
                               IF i[1] = 0 THEN [sk EXCEPT ![obj[o].fd].st = "listening"]
                               ELSE sk, path)

UnixConnect(o) ==
    /\ prog = "unix"
    /\ obj[o].kind = "UnixSocket"
    /\ \E i \in CallOutcomes(obj[o].fd, ConnectErrs) :
          Commit("UnixSocket::connect", o, UnixConnectFn(obj[o], i[1], i[2]))

\* UnixSocket::close(): c is the outcome of CloseSocket, which is not looked at.
UnixCloseFn(me, c) ==
    IF me.fd = INVALID_SOCKET
    THEN Result(me, fdSt, aiSt, 0, NoExc, <<>>, FALSE)
    ELSE Result([me EXCEPT !.fd = INVALID_SOCKET], CloseSocketSt(fdSt, me.fd), aiSt, c,
                NoExc, <<Call("close", me.fd, c)>>, FALSE)

UnixClose(o) ==
    /\ prog = "unix"
    /\ obj[o].kind = "UnixSocket"
    /\ \E c \in CloseOutcomes(obj[o].fd) : Commit("UnixSocket::close", o, UnixCloseFn(obj[o], c))

\* UnixSocket::~UnixSocket(): close().
UnixDtorFn(me, c) == [UnixCloseFn(me, c) EXCEPT !.me = NoObj]

UnixDtor(o) ==
    /\ prog \in {"unix", "local"}
    /\ obj[o].kind = "UnixSocket"
    /\ \E c \in CloseOutcomes(obj[o].fd) :
          Commit("UnixSocket::~UnixSocket", o, UnixDtorFn(obj[o], c))

\* UnixSocket::accept(): r is the outcome of ::accept. The local `client` is
\* returned by value and UnixSocket declares no move operation: either the
\* compiler constructs `client` in the caller's object (elide), or the caller's
\* object is a memberwise copy and ~UnixSocket runs on `client`, with c the
\* outcome of its CloseSocket.
UnixAcceptFn(me, r, elide, c) ==
    IF r # 0
    THEN Result(NoObj, fdSt, aiSt, r, Thrown(r), <<Call("accept", me.fd, r)>>, FALSE)
    ELSE LET s == socket(fdSt, 0)
             client == [UnixNew EXCEPT !.fd = s.fd]
         IN IF elide
            THEN Result(client, s.st, aiSt, 0, NoExc, <<Call("accept", me.fd, 0)>>, FALSE)
            ELSE Result(client, CloseSocketSt(s.st, client.fd), aiSt, c, NoExc,
                        <<Call("accept", me.fd, 0), Call("close", client.fd, c)>>, FALSE)

\* UnixSocket dst = srv.accept();
\* In the program "local" ::accept succeeds by taking the connection that has
\* waited longest on the listening descriptor.
UnixAccept(srv, dst) ==
    /\ prog \in {"unix", "local"}
    /\ srv # dst
    /\ obj[srv].kind = "UnixSocket"
    /\ obj[dst].kind = "none"
    /\ \E r \in {0} \cup AcceptErrs, elide \in BOOLEAN, c \in {0} \cup CloseErrs :
          LET R == UnixAcceptFn(obj[srv], r, elide, c)
              d == obj[srv].fd
          IN /\ r # 0 \/ elide => c = 0
             /\ r # 0 => elide
             /\ r = 0 => IsOpen(d) /\ HasFreshFd(fdSt)
             /\ IF prog = "unix"
                THEN Commit2("UnixSocket::accept", dst, srv, R, obj[srv])
                ELSE /\ r = 0 => sk[d].st = "listening" /\ sk[d].q # <<>>
                     /\ LocalStep("UnixSocket::accept", dst, srv, [obj EXCEPT ![dst] = R.me],
                                  R, IF r = 0 THEN [sk EXCEPT ![d].q = Tail(@)] ELSE sk, path)

(***************************************************************************)
(* SocketInitializer                                                       *)
(***************************************************************************)
\* The network stack after InitSockets() returned r.
InitSockets(st, r) == IF r = 0 THEN [st EXCEPT !.inits = @ + 1] ELSE st
\* Faulty variant, for comparison: a destructor that releases the stack twice.
CleanupSocketsTwice(st) == [st EXCEPT !.cleanups = @ + 2]

\* The network stack after CleanupSockets().
CleanupSockets(st) == [st EXCEPT !.cleanups = @ + 1]

\* SocketInitializer::SocketInitializer(): r is what InitSockets() returned; a
\* failure throws GetSocketError().
InitializerCtorFn(e0, r) ==
    IF r # 0
    THEN Result(NoObj, fdSt, aiSt, e0, Thrown(e0), <<Call("InitSockets", 0, r)>>, FALSE)
    ELSE Result([NoObj EXCEPT !.kind = "SocketInitializer"], fdSt, aiSt, e0, NoExc,
                <<Call("InitSockets", 0, 0)>>, FALSE)

InitializerCtor(o) ==
    /\ prog = "init"
    /\ obj[o].kind = "none"
    /\ \E e0 \in StaleErrs, r \in {0} \cup StackErrs :
          /\ r = 0 => stack.inits < MaxInit
          /\ Step("SocketInitializer::SocketInitializer", o, o,
                  [obj EXCEPT ![o] = InitializerCtorFn(e0, r).me], InitializerCtorFn(e0, r))
          /\ stack' = InitSockets(stack, r)
          /\ UNCHANGED <<sk, resolved>>

\* SocketInitializer::~SocketInitializer(): r is what CleanupSockets() returned; a
\* failure is written to std::cerr.
InitializerDtorFn(me, r) ==
    Result(NoObj, fdSt, aiSt, r, NoExc, <<Call("CleanupSockets", 0, r)>>, r # 0)

InitializerDtor(o) ==
    /\ prog = "init"
    /\ obj[o].kind = "SocketInitializer"
    /\ \E r \in {0} \cup StackErrs :
          /\ Step("SocketInitializer::~SocketInitializer", o, o,
                  [obj EXCEPT ![o] = NoObj], InitializerDtorFn(obj[o], r))
          /\ stack' = CleanupSockets(stack)
          /\ UNCHANGED <<sk, resolved>>

(***************************************************************************)
(* Reading from a connection                                               *)
(***************************************************************************)
Min(x, y) == IF x < y THEN x ELSE y

\* No read, write or isConnected has been made yet.
NoRead == [op |-> "none", how |-> "none", code |-> 0, n |-> 0, data |-> <<>>, eof |-> FALSE]

\* What recv(fd, buf, len, 0) can do on the connection: fail with an error; or
\* take the first n of the bytes waiting (1 <= n <= len); or return 0 when len is
\* 0, or when no byte is waiting and the peer has closed (eof). With no byte
\* waiting and the peer still there, recv blocks.
recv(len) ==
    {[n |-> SOCKET_ERROR, err |-> e, data |-> <<>>, rest |-> rx, eof |-> FALSE] : e \in RecvErrs}
    \cup (IF rx # <<>> /\ len > 0
          THEN {[n |-> k, err |-> 0, data |-> SubSeq(rx, 1, k),
                 rest |-> SubSeq(rx, k + 1, Len(rx)), eof |-> FALSE] : k \in 1..Min(len, Len(rx))}
          ELSE IF peerClosed \/ len = 0
          THEN {[n |-> 0, err |-> 0, data |-> <<>>, rest |-> rx,
                 eof |-> peerClosed /\ rx = <<>>]}
          ELSE {})

\* How a read ended: "returned" normally, or with a socket_exception that says
\* the connection was "closed" by the remote end (code 0), or with a
\* socket_exception of the OS "error". n is what recv returned, eof whether that
\* was the zero-length receive of a connection the peer has closed.
Read(op, how, code, v) ==
    [op |-> op, how |-> how, code |-> code, n |-> v.n, data |-> v.data, eof |-> v.eof]

\* The check made after recv by Socket::read<T>, Socket::read<std::string> and
\* UnixSocket::read<T>: SOCKET_ERROR throws the OS error, 0 throws "Connection
\* closed by remote host.", else the bytes are returned.
ReadOrThrow(op, v) ==
    IF v.n = SOCKET_ERROR THEN Read(op, "error", v.err, v)
    ELSE IF v.n = 0 THEN Read(op, "closed", 0, v)
    ELSE Read(op, "returned", 0, v)

\* template <> std::string Socket::read(): len is buffer.size().
SocketReadString(v) == ReadOrThrow("Socket::read<std::string>", v)
\* template <typename T> T Socket::read(): len is sizeof(T).
SocketReadT(v) == ReadOrThrow("Socket::read<T>", v)
\* template <typename T> T UnixSocket::read(): len is sizeof(T).
UnixReadT(v) == ReadOrThrow("UnixSocket::read<T>", v)
\* int UnixSocket::read(char* buffer, std::size_t len): only -1 throws; what recv
\* returned is returned otherwise.
UnixRead(v) ==
    IF v.n = SOCKET_ERROR THEN Read("UnixSocket::read", "error", v.err, v)
    ELSE Read("UnixSocket::read", "returned", 0, v)

\* The program's read on object o ended as r, recv having been asked for len
\* bytes and ended as v. The program "read" keeps len.
CommitRead(o, v, r, len) ==
    /\ rd' = r
    /\ rx' = v.rest
    /\ exc' = IF r.how = "returned" THEN NoExc ELSE Thrown(r.code)
    /\ calls' = <<Call("recv", obj[o].fd, IF v.n = SOCKET_ERROR THEN v.err ELSE 0)>>
    /\ diag' = FALSE
    /\ lastOp' = [op |-> r.op, o |-> o, src |-> o]
    /\ ret' = IF prog = "read" THEN <<len>> ELSE ret
    /\ UNCHANGED <<prog, obj, fdSt, aiSt, stack, peerClosed, sk, resolved, build, inq, sent,
                   got, buffer, nonBlocking, path, udp>>

ReadString(o) ==
    /\ prog = "read"
    /\ obj[o].kind = "Socket"
    /\ \E len \in 0..MaxLen : \E v \in recv(len) : CommitRead(o, v, SocketReadString(v), len)

ReadT(o) ==
    /\ prog = "read"
    /\ obj[o].kind = "Socket"
    /\ \E len \in 1..MaxLen : \E v \in recv(len) : CommitRead(o, v, SocketReadT(v), len)

\* recv on a descriptor that is not open fails with EBADF.
UnixReadBuffer(o) ==
    /\ prog \in {"read", "local"}
    /\ obj[o].kind = "UnixSocket"
    /\ \E len \in 0..MaxLen :
          \E v \in IF IsOpen(obj[o].fd) THEN recv(len)
                   ELSE {[n |-> SOCKET_ERROR, err |-> e, data |-> <<>>, rest |-> rx,
                          eof |-> FALSE] : e \in BadFdErrs} :
             CommitRead(o, v, UnixRead(v), len)

UnixReadValue(o) ==
    /\ prog = "read"
    /\ obj[o].kind = "UnixSocket"
    /\ \E len \in 1..MaxLen : \E v \in recv(len) : CommitRead(o, v, UnixReadT(v), len)

\* The peer sends a byte.
PeerSend ==
    /\ prog = "read"
    /\ ~peerClosed
    /\ Len(rx) < MaxRx
    /\ \E b \in Bytes : rx' = Append(rx, b)
    /\ UNCHANGED <<prog, obj, fdSt, aiSt, calls, exc, diag, lastOp, stack, peerClosed, rd, sk, resolved, pairVars>>

\* The peer closes its end of the connection.
PeerClose ==
    /\ prog = "read"
    /\ ~peerClosed
    /\ peerClosed' = TRUE
    /\ UNCHANGED <<prog, obj, fdSt, aiSt, calls, exc, diag, lastOp, stack, rx, rd, sk, resolved, pairVars>>

(***************************************************************************)
(* A connected pair of Sockets                                             *)
(*                                                                         *)
(* Slot "a" holds the Socket a client constructed and connected            *)
(* (descriptor 1), slot "b" the Socket that ServerSocket::accept returned  *)
(* for that connection (descriptor 2). What one end sends arrives at the   *)
(* other end in order.                                                     *)
(***************************************************************************)
Builds == {"posix", "windows"}
PipeErrs == {32}            \* send() to a connection the peer has left: EPIPE
WouldBlock == {11}          \* nothing to return in non-blocking mode: EWOULDBLOCK

Peer(o) == IF o = "a" THEN "b" ELSE "a"
EndFd(o) == IF o = "a" THEN 1 ELSE 2
\* The other end's descriptor has been closed.
PeerGone(o) == ~IsOpen(EndFd(Peer(o)))
\* The process goes on until a signal ends it.
Running == rd.how # "signal"
\* The messages the program writes at end o: of every length up to MaxLen, each
\* byte numbered by its place in all that the end has sent, so that a byte lost,
\* repeated or out of order shows at the other end.
Messages(o) == {[i \in 1..n |-> Len(sent[o]) + i] : n \in 0..MaxLen}
\* The programs over a pair. "send": the client writes and the accepted Socket
\* reads; "reply": the accepted Socket writes and the client reads; "probe": both
\* ends write, neither reads, and the program asks isConnected.
Writers == IF prog = "send" THEN {"a"} ELSE IF prog = "reply" THEN {"b"} ELSE Objs
Readers == IF prog = "send" THEN {"b"} ELSE IF prog = "reply" THEN {"a"} ELSE {}

\* What send(d, msg, len, flags) can do at end o. On a descriptor that is not
\* open it fails. Once the peer has left, the bytes are either accepted and
\* dropped, or the pipe is found broken: the call fails with EPIPE, and on POSIX
\* the process is sent SIGPIPE first, which ends it unless flags has MSG_NOSIGNAL.
\* Otherwise the first k bytes of msg are accepted (all of them or fewer) and
\* arrive at the peer.
send(o, d, msg, flags) ==
    LET accepted(lost) ==
            {[n |-> k, err |-> 0, data |-> SubSeq(msg, 1, k), eof |-> FALSE,
              signal |-> FALSE, lost |-> lost] :
                k \in (IF msg = <<>> THEN {0} ELSE 1..Len(msg))}
        failed(errs, sig) ==
            {[n |-> SOCKET_ERROR, err |-> e, data |-> <<>>, eof |-> FALSE,
              signal |-> sig, lost |-> FALSE] : e \in errs}
    IN  IF ~IsOpen(d) THEN failed(BadFdErrs, FALSE)
        ELSE IF PeerGone(o)
        THEN accepted(TRUE)
             \cup failed(PipeErrs, build = "posix" /\ "MSG_NOSIGNAL" \notin flags)
        ELSE accepted(FALSE)

\* What recv(d, buf, len, flags) can do at end o whose descriptor is in mode nb
\* (non-blocking or not). With MSG_PEEK the bytes returned stay in the queue. With
\* no byte waiting and the peer still there, a non-blocking recv fails with
\* EWOULDBLOCK and a blocking one suspends the caller (blocks).
recvAt(o, d, nb, len, flags) ==
    LET out(n, e, dat, rest, blk) ==
            [n |-> n, err |-> e, data |-> dat, rest |-> rest,
             eof |-> n = 0 /\ PeerGone(o) /\ inq[o] = <<>>, blocks |-> blk]
    IN  IF ~IsOpen(d) THEN {out(SOCKET_ERROR, e, <<>>, inq[o], FALSE) : e \in BadFdErrs}
        ELSE IF inq[o] # <<>> /\ len > 0
        THEN {out(k, 0, SubSeq(inq[o], 1, k),
                  IF "MSG_PEEK" \in flags THEN inq[o]
                  ELSE SubSeq(inq[o], k + 1, Len(inq[o])), FALSE) :
                 k \in 1..Min(len, Len(inq[o]))}
        ELSE IF PeerGone(o) \/ len = 0 THEN {out(0, 0, <<>>, inq[o], FALSE)}
        ELSE IF nb THEN {out(SOCKET_ERROR, e, <<>>, inq[o], FALSE) : e \in WouldBlock}
        ELSE {out(0, 0, <<>>, inq[o], TRUE)}

\* An operation of the pair program on end o ended: r is how, x its exception,
\* cs the OS calls it made.
PairStep(op, o, r, x, cs) ==
    /\ rd' = r
    /\ exc' = x
    /\ calls' = cs
    /\ diag' = FALSE
    /\ lastOp' = [op |-> op, o |-> o, src |-> o]
    /\ UNCHANGED <<prog, obj, fdSt, aiSt, stack, rx, peerClosed, sk, resolved, build, path, udp, ret>>

OsResult(v) == IF v.n = SOCKET_ERROR THEN v.err ELSE 0

\* Faulty variant, for comparison: a write that passes no flag to send().
SocketWritePlain == {}

\* Socket::write: the flags it passes to send().
SocketWriteFlags == IF build = "windows" THEN {} ELSE {"MSG_NOSIGNAL"}

\* int Socket::write(std::string_view message): one send(); SOCKET_ERROR throws the
\* OS error, else what send() returned is returned. A SIGPIPE ends the process
\* inside the call.
SocketWrite(v) ==
    IF v.signal THEN Read("Socket::write", "signal", 0, v)
    ELSE IF v.n = SOCKET_ERROR THEN Read("Socket::write", "error", v.err, v)
    ELSE Read("Socket::write", "returned", 0, v)

Write(o) ==
    /\ prog \in {"send", "reply", "probe"}
    /\ o \in Writers
    /\ Running
    /\ obj[o].kind = "Socket"
    /\ \E msg \in Messages(o) : \E v \in send(o, obj[o].fd, msg, SocketWriteFlags) :
          /\ Len(sent[o]) + Len(v.data) <= MaxRx
          /\ sent' = [sent EXCEPT ![o] = @ \o v.data]
          /\ inq' = IF v.lost THEN inq ELSE [inq EXCEPT ![Peer(o)] = @ \o v.data]
          /\ PairStep("Socket::write", o, SocketWrite(v),
                      IF SocketWrite(v).how = "error" THEN Thrown(v.err) ELSE NoExc,
                      <<Call("send", obj[o].fd, OsResult(v))>>)
          /\ UNCHANGED <<got, buffer, nonBlocking>>

\* std::string Socket::read() on end o: recv of buffer.size() bytes, in the mode the
\* descriptor is in.
PairRead(o) ==
    /\ prog \in {"send", "reply"}
    /\ o \in Readers
    /\ Running
    /\ obj[o].kind = "Socket"
    /\ \E v \in recvAt(o, obj[o].fd, nonBlocking[o], buffer[o], {}) :
          /\ ~v.blocks
          /\ got' = [got EXCEPT ![o] = @ \o v.data]
          /\ inq' = [inq EXCEPT ![o] = v.rest]
          /\ PairStep("Socket::read<std::string>", o, SocketReadString(v),
                      IF SocketReadString(v).how = "returned" THEN NoExc
                      ELSE Thrown(SocketReadString(v).code),
                      <<Call("recv", obj[o].fd, OsResult(v))>>)
          /\ UNCHANGED <<sent, buffer, nonBlocking>>

\* void Socket::setBufferSize(std::size_t newLen).
SetBufferSize(o) ==
    /\ prog \in {"send", "reply"}
    /\ o \in Readers
    /\ Running
    /\ obj[o].kind = "Socket"
    /\ \E newLen \in 0..MaxLen :
          /\ buffer' = [buffer EXCEPT ![o] = newLen]
          /\ PairStep("Socket::setBufferSize", o, NoRead, NoExc, <<>>)
          /\ UNCHANGED <<inq, sent, got, nonBlocking>>

\* void Socket::setNonBlocking(bool): fcntl / ioctlsocket on clientSocket, which
\* fail on a descriptor that is not open.
SetNonBlocking(o) ==
    /\ prog = "probe"
    /\ Running
    /\ obj[o].kind = "Socket"
    /\ \E b \in BOOLEAN :
          IF IsOpen(obj[o].fd)
          THEN /\ nonBlocking' = [nonBlocking EXCEPT ![o] = b]
               /\ PairStep("Socket::setNonBlocking", o, NoRead, NoExc,
                           <<Call("fcntl", obj[o].fd, 0)>>)
               /\ UNCHANGED <<inq, sent, got, buffer>>
          ELSE \E e \in BadFdErrs :
               /\ PairStep("Socket::setNonBlocking", o, NoRead, Thrown(e),
                           <<Call("fcntl", obj[o].fd, e)>>)
               /\ UNCHANGED <<inq, sent, got, buffer, nonBlocking>>

\* Socket::close() on an end of the pair; the other end then finds the peer gone.
PairClose(o) ==
    /\ prog \in {"send", "reply", "probe"}
    /\ Running
    /\ obj[o].kind = "Socket"
    /\ \E r \in CloseOutcomes(obj[o].fd) :
          LET R == SocketCloseFn(obj[o], r)
          IN  /\ obj' = [obj EXCEPT ![o] = R.me]
              /\ fdSt' = R.fdSt
              /\ aiSt' = R.aiSt
              /\ exc' = R.exc
              /\ calls' = R.calls
              /\ diag' = R.diag
              /\ lastOp' = [op |-> "Socket::close", o |-> o, src |-> o]
              /\ rd' = NoRead
              /\ UNCHANGED <<prog, stack, rx, peerClosed, sk, resolved, pairVars>>

\* Faulty variant, for comparison: an isConnected that peeks in whatever mode the
\* descriptor is in.
PeekModeKept(was) == was

\* The mode isConnected peeks in: O_NONBLOCK is set first when it was not.
PeekMode(was) == IF ~was THEN TRUE ELSE was

\* Faulty variant, for comparison: an isConnected that takes every failed peek as
\* a lost connection.
AnswerStrict(v) == IF v.blocks THEN "blocked" ELSE IF v.n > 0 THEN "true" ELSE "false"

\* What isConnected returns after recv(clientSocket, &buf, 1, MSG_PEEK) ended as v:
\* false for 0; for a failure, whether the error is EWOULDBLOCK / EAGAIN; else
\* true. "blocked": the recv has suspended the caller.
Answer(v) ==
    IF v.blocks THEN "blocked"
    ELSE IF v.n = 0 THEN "false"
    ELSE IF v.n < 0 THEN (IF v.err \in WouldBlock THEN "true" ELSE "false")
    ELSE "true"

\* bool Socket::isConnected() const on end o, as a set of endings: r how it ended,
\* rest the bytes still waiting, nb the mode the descriptor is left in, calls the
\* OS calls made. POSIX: fcntl(F_GETFL), whose failure (-1) reads as "was
\* non-blocking"; the peek; the flags put back. Windows: FIONREAD first, then the
\* peek between FIONBIO 1 and FIONBIO 0.
SocketIsConnected(o) ==
    LET d == obj[o].fd
        none == [n |-> 0, err |-> 0, data |-> <<>>, eof |-> FALSE]
        end(how, v, rest, nb, cs) ==
            [r |-> Read("Socket::isConnected", how, 0, v), rest |-> rest, nb |-> nb,
             calls |-> cs]
        was == IF IsOpen(d) THEN nonBlocking[o] ELSE TRUE
    IN  IF d = INVALID_SOCKET THEN {end("false", none, inq[o], nonBlocking[o], <<>>)}
        ELSE IF build = "windows"
        THEN IF ~IsOpen(d)
             THEN {end("false", none, inq[o], nonBlocking[o], <<Call("ioctlsocket", d, e)>>) :
                      e \in BadFdErrs}
             ELSE IF Len(inq[o]) > 0
             THEN {end("true", none, inq[o], nonBlocking[o], <<Call("ioctlsocket", d, 0)>>)}
             ELSE {end(Answer(v), v, v.rest, FALSE,
                       <<Call("ioctlsocket", d, 0), Call("ioctlsocket", d, 0),
                         Call("recv", d, OsResult(v)), Call("ioctlsocket", d, 0)>>) :
                      v \in recvAt(o, d, TRUE, 1, {"MSG_PEEK"})}
        ELSE {end(Answer(v), v, v.rest, nonBlocking[o],
                  <<Call("fcntl", d, 0), Call("recv", d, OsResult(v))>>) :
                 v \in recvAt(o, d, PeekMode(was), 1, {"MSG_PEEK"})}

IsConnected(o) ==
    /\ prog = "probe"
    /\ Running
    /\ obj[o].kind = "Socket"
    /\ \E e \in SocketIsConnected(o) :
          /\ inq' = [inq EXCEPT ![o] = e.rest]
          /\ nonBlocking' = [nonBlocking EXCEPT ![o] = e.nb]
          /\ PairStep("Socket::isConnected", o, e.r, NoExc, e.calls)
          /\ UNCHANGED <<sent, got, buffer>>

(***************************************************************************)
(* Datagrams                                                               *)
(*                                                                         *)
(* Slot "a" holds a DatagramSocket(port): descriptor 1, bound to            *)
(* ServerPort. Slot "b" holds the client: a DatagramSocket() or a           *)
(* DatagramSocket(host, port) (descriptor 2, not bound). A datagram is its  *)
(* payload with the address and port it was sent from, and the descriptor  *)
(* that sent it (0: a sender outside the program).                         *)
(***************************************************************************)
ServerPort == 54321
\* The ports the OS picks from when an unbound descriptor sends.
EphemeralPorts == {65535}
\* Arguments of setTimeout(millis): none, and one with seconds and a remainder.
Millis == {0, 1500}

\* std::stoi of a port's decimal text.
RECURSIVE stoi(_)
stoi(ds) == IF ds = <<>> THEN 0 ELSE 10 * stoi(SubSeq(ds, 1, Len(ds) - 1)) + ds[Len(ds)]

\* The payloads the program sends: of every length up to MaxLen, the bytes
\* numbered by their place.
Payloads == {[i \in 1..n |-> i] : n \in 0..MaxLen}

\* The address a receiver of family fam sees for a sender of family from: an
\* IPv6 descriptor sees an IPv4 sender in the IPv4-mapped form.
SeenAs(fam, from) == IF fam = "v6" /\ from = "v4" THEN "v4mapped" ELSE from

\* What sendto can return on descriptor d: the whole datagram is taken or the
\* call fails; on a descriptor that is not open it fails with EBADF.
SendtoOutcomes(d) == IF IsOpen(d) THEN {0} \cup PipeErrs ELSE BadFdErrs

\* int DatagramSocket::sendTo(data, len, host, port): getaddrinfo (gai; a failure
\* throws GetSocketError(), e0), sendto on sockfd (outcome s), freeaddrinfo, and
\* SOCKET_ERROR from sendto throws.
DatagramSendToFn(me, e0, gai, s, msg) ==
    IF gai # 0
    THEN [exc |-> Thrown(e0), calls |-> <<Call("getaddrinfo", nullptr, gai)>>,
          n |-> SOCKET_ERROR]
    ELSE [exc |-> IF s # 0 THEN Thrown(s) ELSE NoExc,
          calls |-> <<Call("getaddrinfo", "destinfo", 0), Call("sendto", me.fd, s),
                      Call("freeaddrinfo", "destinfo", 0)>>,
          n |-> IF s # 0 THEN SOCKET_ERROR ELSE Len(msg)]

\* The descriptors after sendto took msg on d for ServerPort: d gets the port ep if
\* it had none; the datagram joins the queue of the open descriptor bound to
\* ServerPort, unless it is lost on the way or the queue is full.
Delivered(d, msg, ep, lost) ==
    LET bound == [udp EXCEPT ![d].port = IF @ = 0 THEN ep ELSE @]
        to == {t \in Fds : IsOpen(t) /\ bound[t].port = ServerPort}
    IN IF lost \/ to = {} THEN bound
       ELSE LET t == CHOOSE t \in to : TRUE
            IN IF Len(bound[t].q) >= MaxPending THEN bound
               ELSE [bound EXCEPT ![t].q = Append(@, [data |-> msg,
                                                      addr |-> SeenAs(bound[t].fam, bound[d].fam),
                                                      port |-> bound[d].port,
                                                      by |-> d])]

\* What an operation of the datagram program hands back: n the int it returned,
\* data the bytes put in the caller's buffer, senderAddr and senderPort the
\* output arguments of recvFrom, from the datagram they were made of, arg the
\* len (for setTimeout: millis) the caller passed.
NoDatagram == [data |-> <<>>, addr |-> "none", port |-> 0, by |-> 0]
Outputs(n, arg) ==
    [n |-> n, data |-> <<>>, senderAddr |-> "", senderPort |-> 0, from |-> NoDatagram,
     arg |-> arg]

\* An operation of the datagram program on end o ended: r is how, x its
\* exception, cs the OS calls it made, v what it returned.
DatagramStep(op, o, r, x, cs, v) ==
    /\ rd' = r
    /\ exc' = x
    /\ calls' = cs
    /\ ret' = v
    /\ diag' = FALSE
    /\ lastOp' = [op |-> op, o |-> o, src |-> o]
    /\ UNCHANGED <<prog, obj, fdSt, aiSt, stack, rx, peerClosed, sk, resolved, build, inq,
                   sent, got, buffer, nonBlocking, path>>

\* In the datagram program the client "b" sends to ServerPort and the server "a"
\* sets its timeout and receives.
\* The program is inside a recvfrom that has not returned.
Blocked == rd.how = "blocked"

SendTo(o) ==
    /\ prog = "dgram"
    /\ ~Blocked
    /\ o = "b"
    /\ obj[o].kind = "DatagramSocket"
    /\ \E e0 \in StaleErrs, gai \in {0} \cup GaiErrs, msg \in Payloads,
          s \in SendtoOutcomes(obj[o].fd), ep \in EphemeralPorts, lost \in BOOLEAN :
          LET R == DatagramSendToFn(obj[o], e0, gai, s, msg)
          IN /\ DatagramStep("DatagramSocket::sendTo", o,
                             Read("DatagramSocket::sendTo",
                                  IF R.exc.thrown THEN "error" ELSE "returned", R.exc.code,
                                  [n |-> R.n, data |-> msg, eof |-> FALSE]),
                             R.exc, R.calls, Outputs(R.n, Len(msg)))
             /\ udp' = IF R.n = SOCKET_ERROR THEN udp
                       ELSE Delivered(obj[o].fd, msg, ep, lost)

\* Faulty variant, for comparison: a recvFrom whose port text buffer holds four
\* digits.
DatagramRecvFromShortServ(dg, len) ==
    LET n == Min(len, Len(dg.data))
        serv == Digits(dg.port)
    IN [n |-> n,
        data |-> SubSeq(dg.data, 1, n),
        senderAddr |-> getnameinfo(dg.addr, 0),
        senderPort |-> stoi(SubSeq(serv, 1, Min(4, Len(serv)))) % 65536,
        from |-> dg,
        arg |-> len]

\* recvfrom returned the datagram dg into a buffer of len bytes: the first len
\* bytes of the payload, the rest of it dropped; then getnameinfo gives the host
\* and the port of the sender as text, and senderPort is std::stoi of the port
\* text as unsigned short.
DatagramRecvFromFn(dg, len) ==
    LET n == Min(len, Len(dg.data))
    IN [n |-> n,
        data |-> SubSeq(dg.data, 1, n),
        senderAddr |-> getnameinfo(dg.addr, 0),
        senderPort |-> stoi(Digits(dg.port)) % 65536,
        from |-> dg,
        arg |-> len]

\* What a recvfrom that ended leaves: the datagram at the head of the queue of d
\* is taken and returned.
Received(op, o, d, len) ==
    LET v == DatagramRecvFromFn(Head(udp[d].q), len)
    IN /\ DatagramStep(op, o,
                       Read(op, "returned", 0, [n |-> v.n, data |-> v.data, eof |-> FALSE]),
                       NoExc, <<Call("recvfrom", d, 0), Call("getnameinfo", v.from.addr, 0)>>, v)
       /\ udp' = [udp EXCEPT ![d].q = Tail(@)]

\* int DatagramSocket::recvFrom(data, len, senderAddr, senderPort): recvfrom on
\* sockfd; SOCKET_ERROR throws. With no datagram waiting the call does not
\* return yet.
RecvFrom(o) ==
    /\ prog = "dgram"
    /\ ~Blocked
    /\ o = "a"
    /\ obj[o].kind = "DatagramSocket"
    /\ LET d == obj[o].fd
           op == "DatagramSocket::recvFrom"
       IN \E len \in 0..MaxLen :
             \/ /\ IsOpen(d) /\ udp[d].q # <<>>
                /\ Received(op, o, d, len)
             \/ /\ IsOpen(d) /\ udp[d].q = <<>>
                /\ DatagramStep(op, o, Read(op, "blocked", 0, [n |-> 0, data |-> <<>>, eof |-> FALSE]),
                                NoExc, <<>>, Outputs(0, len))
                /\ UNCHANGED udp
             \/ /\ \E e \in (IF IsOpen(d) THEN RecvErrs ELSE BadFdErrs) :
                      DatagramStep(op, o,
                                   Read(op, "error", e, [n |-> SOCKET_ERROR, data |-> <<>>, eof |-> FALSE]),
                                   Thrown(e), <<Call("recvfrom", d, e)>>,
                                   Outputs(SOCKET_ERROR, len))
                /\ UNCHANGED udp

\* A datagram has come in while recvfrom waited: the call returns it.
Wake ==
    /\ prog = "dgram"
    /\ Blocked
    /\ udp[obj[lastOp.o].fd].q # <<>>
    /\ Received(lastOp.op, lastOp.o, obj[lastOp.o].fd, ret.arg)

\* The receive timeout of the descriptor ran out while recvfrom waited with no
\* datagram: the call fails with EAGAIN / WSAETIMEDOUT, which recvFrom throws.
TimerExpires ==
    /\ prog = "dgram"
    /\ Blocked
    /\ udp[obj[lastOp.o].fd].q = <<>>
    /\ udp[obj[lastOp.o].fd].tmo > 0
    /\ \E e \in WouldBlock :
          DatagramStep(lastOp.op, lastOp.o,
                       Read(lastOp.op, "error", e, [n |-> SOCKET_ERROR, data |-> <<>>, eof |-> FALSE]),
                       Thrown(e), <<Call("recvfrom", obj[lastOp.o].fd, e)>>,
                       Outputs(SOCKET_ERROR, ret.arg))
    /\ UNCHANGED udp

\* A datagram of a sender outside the program arrives at a bound descriptor.
Arrive ==
    /\ prog = "dgram"
    /\ \E d \in Fds, from \in {"v6"}, fp \in ForeignPorts :
          /\ IsOpen(d)
          /\ udp[d].port # 0
          /\ Len(udp[d].q) < MaxPending
          /\ udp' = [udp EXCEPT ![d].q = Append(@, [data |-> <<0>>,
                                                    addr |-> SeenAs(udp[d].fam, from),
                                                    port |-> fp,
                                                    by |-> 0])]
    /\ UNCHANGED <<prog, obj, fdSt, aiSt, calls, exc, diag, lastOp, stack, ioVars, sk, resolved,
                   build, inq, sent, got, buffer, nonBlocking, path, ret>>

\* Faulty variant, for comparison: a setTimeout that sets the send timeout only.
DatagramSetTimeoutSendOnly(me, millis, r1, r2) ==
    [exc |-> IF r2 # 0 THEN Thrown(r2) ELSE NoExc,
     calls |-> <<Call("SO_SNDTIMEO", me.fd, r2)>>,
     rcv |-> FALSE,
     tv |-> [sec |-> millis \div 1000, usec |-> (millis % 1000) * 1000]]

\* void DatagramSocket::setTimeout(int millis): the timeval of millis (POSIX; the
\* milliseconds themselves on Windows) is set as SO_RCVTIMEO (outcome r1), then,
\* if that succeeded, as SO_SNDTIMEO (outcome r2); a failure throws. rcv: the
\* receive timeout of the descriptor was set.
DatagramSetTimeoutFn(me, millis, r1, r2) ==
    [exc |-> IF r1 # 0 THEN Thrown(r1) ELSE IF r2 # 0 THEN Thrown(r2) ELSE NoExc,
     calls |-> IF r1 # 0 THEN <<Call("SO_RCVTIMEO", me.fd, r1)>>
               ELSE <<Call("SO_RCVTIMEO", me.fd, 0), Call("SO_SNDTIMEO", me.fd, r2)>>,
     rcv |-> r1 = 0,
     tv |-> [sec |-> millis \div 1000, usec |-> (millis % 1000) * 1000]]

DatagramSetTimeout(o) ==
    /\ prog = "dgram"
    /\ ~Blocked
    /\ o = "a"
    /\ obj[o].kind = "DatagramSocket"
    /\ \E millis \in Millis :
       \E r1, r2 \in (IF IsOpen(obj[o].fd) THEN {0} \cup OptErrs ELSE BadFdErrs) :
          LET R == DatagramSetTimeoutFn(obj[o], millis, r1, r2)
          IN /\ DatagramStep("DatagramSocket::setTimeout", o, NoRead, R.exc, R.calls, Outputs(0, millis))
             /\ udp' = IF R.rcv
                       THEN [udp EXCEPT ![obj[o].fd].tmo = R.tv.sec * 1000 + R.tv.usec \div 1000]
                       ELSE udp
      
(***************************************************************************)
(* A UnixSocket server and its client                                      *)
(***************************************************************************)
\* The strings the client writes.
Strings == {[i \in 1..n |-> i % 2] : n \in 1..MaxLen}

\* int UnixSocket::write(message) in the client process, whose UnixSocket is
\* connected to the socket path: one send of the whole message, which joins the
\* bytes in flight to the server's end of the connection. The server's end is the
\* connection waiting on "a", or the descriptor "b" got from accept().
ClientWrite ==
    /\ prog = "local"
    /\ (\E d \in Fds : IsOpen(d) /\ sk[d].q # <<>>)
          \/ (obj["b"].kind = "UnixSocket" /\ IsOpen(obj["b"].fd))
    /\ \E msg \in Strings :
          /\ Len(rx) + Len(msg) <= MaxRx
          /\ rx' = rx \o msg
    /\ UNCHANGED <<prog, obj, fdSt, aiSt, calls, exc, diag, lastOp, stack, peerClosed, rd, sk,
                   resolved, pairVars>>

(***************************************************************************)
(* The specifications                                                      *)
(***************************************************************************)

\* No descriptor bound, and no connected pair: the variables of the pair rest.
NoPair ==
    /\ sk = [d \in Fds |-> [st |-> "fresh", q |-> <<>>]]
    /\ resolved = [l \in Ais |-> <<>>]
    /\ build = "posix"
    /\ inq = [o \in Objs |-> <<>>]
    /\ sent = [o \in Objs |-> <<>>]
    /\ got = [o \in Objs |-> <<>>]
    /\ buffer = [o \in Objs |-> 0]
    /\ nonBlocking = [o \in Objs |-> FALSE]
    /\ path = "absent"
    /\ udp = [d \in Fds |-> NoUdp]
    /\ ret = NoOut

\* No object constructed, no OS resource handed out, under program p.
Start(p) ==
    /\ prog = p
    /\ obj = [o \in Objs |-> NoObj]
    /\ fdSt = [d \in Fds |-> "unused"]
    /\ aiSt = [l \in Ais |-> "unused"]
    /\ calls = <<>>
    /\ exc = NoExc
    /\ diag = FALSE
    /\ lastOp = [op |-> "none", o |-> "a", src |-> "a"]
    /\ stack = [inits |-> 0, cleanups |-> 0]
    /\ rx = <<>>
    /\ peerClosed = FALSE
    /\ rd = NoRead
    /\ NoPair

\* The lives of the objects: construction, close, moves, destruction.
Init == \E p \in Progs : Start(p)

Next ==
    \/ \E o \in Objs : SocketCtor(o)
    \/ \E o \in Objs : SocketClose(o)
    \/ \E o \in Objs : SocketDtor(o)
    \/ \E dst, src \in Objs : SocketMoveCtor(dst, src)
    \/ \E dst, src \in Objs : SocketMoveAssign(dst, src)
    \/ \E o \in Objs : ServerCtor(o)
    \/ \E o \in Objs : ServerClose(o)
    \/ \E o \in Objs : ServerDtor(o)
    \/ \E dst, src \in Objs : ServerMoveCtor(dst, src)
    \/ \E srv, dst \in Objs : ServerAccept(srv, dst)
    \/ \E o \in Objs : DatagramCtor(o)
    \/ \E o \in Objs : DatagramCtorPort(o)
    \/ \E o \in Objs : DatagramCtorHost(o)
    \/ \E o \in Objs : DatagramBind(o)
    \/ \E o \in Objs : DatagramClose(o)
    \/ \E o \in Objs : DatagramDtor(o)
    \/ \E dst, src \in Objs : DatagramMoveCtor(dst, src)
    \/ \E dst, src \in Objs : DatagramMoveAssign(dst, src)
    \/ \E o \in Objs : UnixCtor(o)
    \/ \E o \in Objs : UnixCtorPath(o)
    \/ \E o \in Objs : UnixBind(o)
    \/ \E o \in Objs : UnixListen(o)
    \/ \E o \in Objs : UnixConnect(o)
    \/ \E o \in Objs : UnixClose(o)
    \/ \E o \in Objs : UnixDtor(o)
    \/ \E srv, dst \in Objs : UnixAccept(srv, dst)
    \/ \E o \in Objs : InitializerCtor(o)
    \/ \E o \in Objs : InitializerDtor(o)

Spec == Init /\ [][Next]_vars

\* A client that makes Sockets and connects them, every OS call recorded. The
\* program may have been handed, in slot "b", a Socket that ServerSocket::accept
\* returned.
InitConnect ==
    \/ Start("connect")
    \/ /\ prog = "connect"
       /\ obj = [o \in Objs |-> IF o = "b" THEN SocketFromAccept(1, "v4", AddrLen("v4")) ELSE NoObj]
       /\ fdSt = [d \in Fds |-> IF d = 1 THEN "open" ELSE "unused"]
       /\ aiSt = [l \in Ais |-> "unused"]
       /\ calls = <<>>
       /\ exc = NoExc
       /\ diag = FALSE
       /\ lastOp = [op |-> "none", o |-> "a", src |-> "a"]
       /\ stack = [inits |-> 0, cleanups |-> 0]
       /\ rx = <<>>
       /\ peerClosed = FALSE
       /\ rd = NoRead
       /\ NoPair

NextConnect ==
    \/ \E o \in Objs : SocketCtor(o)
    \/ \E o \in Objs : SocketConnect(o)
    \/ \E o \in Objs : SetTimeout(o)
    \/ \E o \in Objs : SocketClose(o)
    \/ \E o \in Objs : SocketDtor(o)
    \/ \E dst, src \in Objs : SocketMoveCtor(dst, src)

SpecConnect == InitConnect /\ [][NextConnect]_vars

\* A program that reads from one connection, through a Socket or a UnixSocket
\* that holds the connection's descriptor.
InitRead ==
    /\ prog = "read"
    /\ \E k \in {"Socket", "UnixSocket"} :
          obj = [o \in Objs |-> IF o = "a" THEN [NoObj EXCEPT !.kind = k, !.fd = 1] ELSE NoObj]
    /\ fdSt = [d \in Fds |-> IF d = 1 THEN "open" ELSE "unused"]
    /\ aiSt = [l \in Ais |-> "unused"]
    /\ calls = <<>>
    /\ exc = NoExc
    /\ diag = FALSE
    /\ lastOp = [op |-> "none", o |-> "a", src |-> "a"]
    /\ stack = [inits |-> 0, cleanups |-> 0]
    /\ rx = <<>>
    /\ peerClosed = FALSE
    /\ rd = NoRead
    /\ NoPair

NextRead ==
    \/ PeerSend
    \/ PeerClose
    \/ \E o \in Objs : ReadString(o)
    \/ \E o \in Objs : ReadT(o)
    \/ \E o \in Objs : UnixReadBuffer(o)
    \/ \E o \in Objs : UnixReadValue(o)

SpecRead == InitRead /\ [][NextRead]_vars

\* Two Sockets connected to each other, under program p: "a" was constructed with
\* some buffer size and connected, "b" came out of ServerSocket::accept for that
\* connection. The buffer size of "a" is varied where "a" reads, and the build
\* where the operations differ by build.
Connected(p) ==
    /\ prog = p
    /\ obj = [o \in Objs |-> IF o = "b" THEN SocketFromAccept(EndFd(o), "v4", AddrLen("v4"))
                              ELSE [NoObj EXCEPT !.kind = "Socket", !.fd = EndFd(o)]]
    /\ fdSt = [d \in Fds |-> IF d \in {EndFd(o) : o \in Objs} THEN "open" ELSE "unused"]
    /\ aiSt = [l \in Ais |-> "unused"]
    /\ calls = <<>>
    /\ exc = NoExc
    /\ diag = FALSE
    /\ lastOp = [op |-> "none", o |-> "a", src |-> "a"]
    /\ stack = [inits |-> 0, cleanups |-> 0]
    /\ rx = <<>>
    /\ peerClosed = FALSE
    /\ rd = NoRead
    /\ sk = [d \in Fds |-> [st |-> "fresh", q |-> <<>>]]
    /\ resolved = [l \in Ais |-> <<>>]
    /\ build \in (IF p = "probe" THEN Builds ELSE {"posix"})
    /\ inq = [o \in Objs |-> <<>>]
    /\ sent = [o \in Objs |-> <<>>]
    /\ got = [o \in Objs |-> <<>>]
    /\ \E bufferSize \in (IF p = "reply" THEN 0..MaxLen ELSE {MaxLen}) :
          buffer = [o \in Objs |-> IF o = "a" THEN bufferSize ELSE 0]
    /\ nonBlocking = [o \in Objs |-> FALSE]
    /\ path = "absent"
    /\ udp = [d \in Fds |-> NoUdp]
    /\ ret = NoOut

\* One end writes, the other reads what arrives.
InitPair == Connected("send") \/ Connected("reply")

NextPair ==
    \/ \E o \in Objs : Write(o)
    \/ \E o \in Objs : PairRead(o)
    \/ \E o \in Objs : SetBufferSize(o)
    \/ \E o \in Objs : PairClose(o)

SpecPair == InitPair /\ [][NextPair]_vars

\* A program that constructs and destroys ServerSockets, every OS call recorded.
InitConstruct == Start("construct")

NextConstruct ==
    \/ \E o \in Objs : ServerCtor(o)
    \/ \E o \in Objs : ServerDtor(o)

SpecConstruct == InitConstruct /\ [][NextConstruct]_vars

\* A server: slot "a" holds a ServerSocket as its constructor left it (descriptor
\* 1, list 1, one of the candidates selected). It is bound, made to listen,
\* accepts the connections of peers, is moved and closed, every OS call recorded;
\* the Sockets it accepts are connected (which fails) and destroyed.
InitServe ==
    /\ prog = "serve"
    /\ \E i \in 1..MaxCand :
          obj = [o \in Objs |-> IF o = "a"
                                THEN [NoObj EXCEPT !.kind = "ServerSocket", !.fd = 1, !.ai = 1,
                                                   !.sel = [l |-> 1, i |-> i]]
                                ELSE NoObj]
    /\ fdSt = [d \in Fds |-> IF d = 1 THEN "open" ELSE "unused"]
    /\ aiSt = [l \in Ais |-> IF l = 1 THEN "live" ELSE "unused"]
    /\ calls = <<>>
    /\ exc = NoExc
    /\ diag = FALSE
    /\ lastOp = [op |-> "none", o |-> "a", src |-> "a"]
    /\ stack = [inits |-> 0, cleanups |-> 0]
    /\ rx = <<>>
    /\ peerClosed = FALSE
    /\ rd = NoRead
    /\ sk = [d \in Fds |-> [st |-> "fresh", q |-> <<>>]]
    /\ resolved = [l \in Ais |-> IF l = 1 THEN [i \in 1..MaxCand |-> AF_INET6] ELSE <<>>]
    /\ build = "posix"
    /\ inq = [o \in Objs |-> <<>>]
    /\ sent = [o \in Objs |-> <<>>]
    /\ got = [o \in Objs |-> <<>>]
    /\ buffer = [o \in Objs |-> 0]
    /\ nonBlocking = [o \in Objs |-> FALSE]
    /\ path = "absent"
    /\ udp = [d \in Fds |-> NoUdp]
    /\ ret = NoOut

NextServe ==
    \/ \E o \in Objs : ServerBind(o)
    \/ \E o \in Objs : ServerListen(o)
    \/ PeerConnect
    \/ \E srv, dst \in Objs : ServerAccept(srv, dst)
    \/ \E o \in Objs : ServerClose(o)
    \/ \E dst, src \in Objs : ServerMoveCtor(dst, src)
    \/ \E o \in Objs : SocketConnect(o)
    \/ \E o \in Objs : SocketDtor(o)

SpecServe == InitServe /\ [][NextServe]_vars

\* A program that asks its Sockets for the address of their peer: "a" was
\* constructed from (host, port) (descriptor 1, list 1, its first candidate
\* selected) and is connected by the program, "b" came from accept() with the
\* address of its peer (descriptor 2).
InitAddress ==
    /\ prog = "address"
    /\ \E p \in Addrs :
          obj = [o \in Objs |-> IF o = "a"
                                THEN [NoObj EXCEPT !.kind = "Socket", !.fd = 1, !.ai = 1,
                                                   !.sel = [l |-> 1, i |-> 1]]
                                ELSE SocketFromAccept(2, p, AddrLen(p))]
    /\ fdSt = [d \in Fds |-> IF d \in {1, 2} THEN "open" ELSE "unused"]
    /\ aiSt = [l \in Ais |-> IF l = 1 THEN "live" ELSE "unused"]
    /\ calls = <<>>
    /\ exc = NoExc
    /\ diag = FALSE
    /\ lastOp = [op |-> "none", o |-> "a", src |-> "a"]
    /\ stack = [inits |-> 0, cleanups |-> 0]
    /\ rx = <<>>
    /\ peerClosed = FALSE
    /\ rd = NoRead
    /\ NoPair

NextAddress ==
    \/ \E o \in Objs : SocketConnect(o)
    \/ \E o \in Objs : GetRemoteSocketAddress(o)
    \/ \E o \in Objs : SocketClose(o)

SpecAddress == InitAddress /\ [][NextAddress]_vars

\* A program that exchanges datagrams: the server "a" is a DatagramSocket(port)
\* bound to ServerPort on an IPv4 or an IPv6 descriptor (descriptor 1, list 1);
\* the client "b" is a DatagramSocket() or a DatagramSocket(host, port)
\* (descriptor 2, list 2), an IPv4 sender.
InitDatagram ==
    /\ prog = "dgram"
    /\ \E fam \in Peers, withHost \in BOOLEAN :
          /\ obj = [o \in Objs |-> IF o = "a" THEN [DatagramNew EXCEPT !.fd = 1, !.ai = 1]
                                    ELSE IF withHost THEN [DatagramNew EXCEPT !.fd = 2, !.ai = 2]
                                    ELSE DatagramNew]
          /\ fdSt = [d \in Fds |-> IF d = 1 \/ (d = 2 /\ withHost) THEN "open" ELSE "unused"]
          /\ aiSt = [l \in Ais |-> IF l = 1 \/ (l = 2 /\ withHost) THEN "live" ELSE "unused"]
          /\ udp = [d \in Fds |-> IF d = 1 THEN [NoUdp EXCEPT !.fam = fam, !.port = ServerPort]
                                   ELSE IF d = 2 /\ withHost THEN [NoUdp EXCEPT !.fam = "v4"]
                                   ELSE NoUdp]
    /\ calls = <<>>
    /\ exc = NoExc
    /\ diag = FALSE
    /\ lastOp = [op |-> "none", o |-> "a", src |-> "a"]
    /\ stack = [inits |-> 0, cleanups |-> 0]
    /\ rx = <<>>
    /\ peerClosed = FALSE
    /\ rd = NoRead
    /\ sk = [d \in Fds |-> [st |-> "fresh", q |-> <<>>]]
    /\ resolved = [l \in Ais |-> <<>>]
    /\ build = "posix"
    /\ inq = [o \in Objs |-> <<>>]
    /\ sent = [o \in Objs |-> <<>>]
    /\ got = [o \in Objs |-> <<>>]
    /\ buffer = [o \in Objs |-> 0]
    /\ nonBlocking = [o \in Objs |-> FALSE]
    /\ path = "absent"
    /\ ret = Outputs(0, 0)

NextDatagram ==
    \/ \E o \in Objs : SendTo(o)
    \/ \E o \in Objs : RecvFrom(o)
    \/ \E o \in Objs : DatagramSetTimeout(o)
    \/ Wake
    \/ TimerExpires
    \/ Arrive

\* The OS returns from a recvfrom whose datagram has come, and lets a receive
\* timeout run out.
SpecDatagram ==
    InitDatagram /\ [][NextDatagram]_vars /\ WF_vars(Wake) /\ WF_vars(TimerExpires)

\* A program over a Unix-domain socket path: the server "a" is a
\* UnixSocket(path, true) (descriptor 1) that binds, listens and accepts into "b";
\* the client is a UnixSocket of another process. At the start nothing is at the
\* path, or the file of an earlier server is.
InitLocal ==
    /\ prog = "local"
    /\ obj = [o \in Objs |-> IF o = "a" THEN [UnixNew EXCEPT !.fd = 1] ELSE NoObj]
    /\ fdSt = [d \in Fds |-> IF d = 1 THEN "open" ELSE "unused"]
    /\ aiSt = [l \in Ais |-> "unused"]
    /\ calls = <<>>
    /\ exc = NoExc
    /\ diag = FALSE
    /\ lastOp = [op |-> "none", o |-> "a", src |-> "a"]
    /\ stack = [inits |-> 0, cleanups |-> 0]
    /\ rx = <<>>
    /\ peerClosed = FALSE
    /\ rd = NoRead
    /\ sk = [d \in Fds |-> [st |-> "fresh", q |-> <<>>]]
    /\ resolved = [l \in Ais |-> <<>>]
    /\ build = "posix"
    /\ inq = [o \in Objs |-> <<>>]
    /\ sent = [o \in Objs |-> <<>>]
    /\ got = [o \in Objs |-> <<>>]
    /\ buffer = [o \in Objs |-> 0]
    /\ nonBlocking = [o \in Objs |-> FALSE]
    /\ path \in {"absent", "stale"}
    /\ udp = [d \in Fds |-> NoUdp]
    /\ ret = NoOut

NextLocal ==
    \/ UnixCtorPath("a")
    \/ UnixBind("a")
    \/ UnixListen("a")
    \/ PeerConnect
    \/ UnixAccept("a", "b")
    \/ ClientWrite
    \/ UnixReadBuffer("b")
    \/ UnixDtor("a")

SpecLocal == InitLocal /\ [][NextLocal]_vars

\* Both ends write and close, and the program asks the Sockets isConnected.
InitProbe == Connected("probe")

NextProbe ==
    \/ \E o \in Objs : Write(o)
    \/ \E o \in Objs : IsConnected(o)
    \/ \E o \in Objs : SetNonBlocking(o)
    \/ \E o \in Objs : PairClose(o)

SpecProbe == InitProbe /\ [][NextProbe]_vars

(***************************************************************************)
(* The claims                                                              *)
(***************************************************************************)
SocketKinds == {"Socket", "ServerSocket", "DatagramSocket", "UnixSocket"}
IsClose(op) == op \in {"Socket::close", "ServerSocket::close", "DatagramSocket::close",
                       "UnixSocket::close"}
IsDtor(op) == op \in {"Socket::~Socket", "ServerSocket::~ServerSocket",
                      "DatagramSocket::~DatagramSocket", "UnixSocket::~UnixSocket",
                      "SocketInitializer::~SocketInitializer"}
\* A release among the calls cs failed.
ReleaseFailed(cs) == \E i \in 1..Len(cs) : cs[i].op \in {"close", "CleanupSockets"} /\ cs[i].r # 0

\* C1: for every socket type, a close() that follows a close() on the same object
\* throws nothing and passes no descriptor to CloseSocket.
C1_CloseIdempotent ==
    [][(IsClose(lastOp.op) /\ lastOp'.op = lastOp.op /\ lastOp'.o = lastOp.o)
         => (~exc'.thrown /\ \A i \in 1..Len(calls') : calls'[i].op # "close")]_vars

\* C2: in every reachable state, a socket object whose descriptor field is not
\* INVALID_SOCKET holds a descriptor that has not been passed to CloseSocket.
C2_ValidNotReleased ==
    \A o \in Objs :
        (obj[o].kind \in SocketKinds /\ obj[o].fd # INVALID_SOCKET) => fdSt[obj[o].fd] = "open"

\* C3: in every reachable state, each open descriptor and each unfreed list is
\* held by at most one socket object.
C3_SingleOwner ==
    \A o, p \in Objs :
        o # p =>
            /\ ~(obj[o].fd = obj[p].fd /\ IsOpen(obj[o].fd))
            /\ ~(obj[o].ai = obj[p].ai /\ obj[o].ai \in Ais /\ aiSt[obj[o].ai] = "live")

\* C4: once every socket object has been destroyed, every descriptor handed out
\* has been passed to CloseSocket exactly once and every list handed out has been
\* freed exactly once.
C4_ReleasedExactlyOnce ==
    (\A o \in Objs : obj[o].kind = "none") =>
        /\ \A d \in Fds : fdSt[d] \in {"unused", "closed"}
        /\ \A l \in Ais : aiSt[l] \in {"unused", "freed"}

\* C5: the destructor of a Socket or ServerSocket that holds a list leaves the
\* list freed exactly once, whatever happens to the descriptor.
C5_ListFreedOnTeardown ==
    [][\A o \in Objs :
          (/\ lastOp'.op \in {"Socket::~Socket", "ServerSocket::~ServerSocket"}
           /\ lastOp'.o = o
           /\ obj'[o].kind = "none"
           /\ obj[o].ai # nullptr)
          => aiSt'[obj[o].ai] = "freed"]_vars

C7_SelectsFirstCreatable ==
    (lastOp.op = "Socket::Socket" /\ ~exc.thrown) =>
        LET me == obj[lastOp.o]
            k == me.sel.i
        IN /\ me.kind = "Socket"
           /\ calls[1] = Call("getaddrinfo", me.ai, 0)
           /\ me.sel.l = me.ai
           /\ k \in 1..MaxCand
           /\ Len(calls) = k + 1
           /\ \A j \in 1..k : calls[j + 1].op = "socket" /\ calls[j + 1].a = j
           /\ \A j \in 1..(k - 1) : calls[j + 1].r # 0
           /\ calls[k + 1].r = 0
           /\ IsOpen(me.fd)
           /\ \A i \in 1..Len(calls) : calls[i].op # "connect"

\* A Socket was constructed on its second candidate, the first having failed.
C7_Witness ==
    /\ lastOp.op = "Socket::Socket"
    /\ ~exc.thrown
    /\ obj[lastOp.o].sel.i = 2
    /\ calls[2].r # 0

\* C8: a Socket constructor that resolved its candidates and threw has seen
\* socket() fail for every candidate, throws the error of the last socket() call,
\* has freed the list, and leaves no object: no descriptor, no selected candidate.
C8_AllCandidatesFail ==
    (lastOp.op = "Socket::Socket" /\ exc.thrown /\ calls[1].r = 0) =>
        LET n == Len(calls) - 2
            l == calls[1].a
        IN /\ n \in 1..MaxCand
           /\ \A j \in 1..n : /\ calls[j + 1].op = "socket"
                              /\ calls[j + 1].a = j
                              /\ calls[j + 1].r \in SocketErrs
           /\ exc.code = calls[n + 1].r
           /\ calls[n + 2] = Call("freeaddrinfo", l, 0)
           /\ aiSt[l] = "freed"
           /\ obj[lastOp.o] = NoObj

\* A Socket constructor threw after two candidates failed with different errors.
C8_Witness ==
    /\ lastOp.op = "Socket::Socket"
    /\ exc.thrown
    /\ Len(calls) = 4
    /\ calls[2].r # calls[3].r
    /\ exc.code = calls[3].r

\* C9: Socket::connect() on an object with no selected candidate throws code 0
\* and makes no OS call; otherwise it makes exactly one ::connect, to the selected
\* candidate, and throws the OS error exactly when that call failed.
C9_ConnectSingleAttempt ==
    lastOp.op = "Socket::connect" =>
        LET me == obj[lastOp.o]
        IN IF me.sel = NoSel
           THEN exc = Thrown(0) /\ calls = <<>>
           ELSE /\ Len(calls) = 1
                /\ calls[1].op = "connect"
                /\ calls[1].a = me.sel.i
                /\ calls[1].r \in {0} \cup ConnectErrs \cup TimeoutErrs
                /\ exc = (IF calls[1].r = 0 THEN NoExc ELSE Thrown(calls[1].r))

\* connect() failed on a Socket whose selected candidate is the second of its
\* list.
C9_Witness ==
    /\ lastOp.op = "Socket::connect"
    /\ obj[lastOp.o].sel.i = 2
    /\ exc.thrown
    /\ exc.code \in ConnectErrs

\* C10: for every read entry point, a read whose recv was the zero-length receive
\* of a connection the peer has closed ends with the closed-by-peer exception.
C10_ReadClosedByPeer == rd.eof => rd.how = "closed"

\* C11: over a connected pair, the bytes written with write() at one end come out
\* of successive read<std::string>() calls at the other end in full and in order:
\* while both ends are open, what the reads returned followed by what still waits
\* is what was written; and a read that finds bytes waiting (and no OS error)
\* returns some of them, so that enough reads return them all.
C11_WriteReadRoundTrip ==
    \A r \in Readers :
        /\ IsOpen(EndFd(r)) /\ IsOpen(EndFd(Peer(r))) => got[r] \o inq[r] = sent[Peer(r)]
        /\ (/\ lastOp.op = "Socket::read<std::string>"
            /\ lastOp.o = r
            /\ rd.how # "error"
            /\ inq[r] # <<>>) => rd.how = "returned"

\* C12: Socket::write on a connection the peer has closed never lets the OS's
\* broken-pipe signal end the process: no write ends in the signal, and a send()
\* that failed (the broken pipe included) ends the write with a socket_exception
\* that carries the OS error.
C12_WriteNoBrokenPipeSignal ==
    rd.op = "Socket::write" =>
        /\ rd.how # "signal"
        /\ rd.n = SOCKET_ERROR => rd.how = "error" /\ exc = Thrown(rd.code)

\* A write on the POSIX build found the pipe broken, the peer having closed, and
\* threw EPIPE.
C12_Witness ==
    /\ rd.op = "Socket::write"
    /\ build = "posix"
    /\ PeerGone(lastOp.o)
    /\ IsOpen(obj[lastOp.o].fd)
    /\ rd.how = "error"
    /\ rd.code \in PipeErrs
    /\ exc = Thrown(rd.code)

\* C13: after setTimeout(millis, forConnect = true), a connect() whose target does
\* not become ready fails with a connect time-out that was reached by a
\* non-blocking connect followed by a bounded wait for readiness, not by a
\* blocking connect: the calls of such a connect() include the wait.
C13_ConnectTimeoutBounded ==
    [][(/\ lastOp.op = "Socket::setTimeout(forConnect)"
        /\ lastOp'.op = "Socket::connect"
        /\ lastOp'.o = lastOp.o
        /\ exc'.thrown
        /\ exc'.code \in TimeoutErrs)
       => \E i \in DOMAIN calls' : calls'[i].op \in {"select", "poll"}]_vars

\* C14: isConnected() takes no byte from the connection (what waits to be read,
\* and what the reads have returned, are as before the call), it returns without
\* suspending the caller whether the descriptor is in blocking or non-blocking
\* mode, and on an object whose descriptor is invalid it returns false.
C14_IsConnectedFrame ==
    [][lastOp'.op = "Socket::isConnected" =>
          /\ inq' = inq
          /\ got' = got
          /\ sent' = sent
          /\ rd'.how \in {"true", "false"}
          /\ obj[lastOp'.o].fd = INVALID_SOCKET => rd'.how = "false"]_vars

\* isConnected() has answered on a descriptor in blocking mode with nothing to
\* read and the peer still there: a blocking recv would have waited.
C14_Witness ==
    /\ lastOp.op = "Socket::isConnected"
    /\ build = "posix"
    /\ ~nonBlocking[lastOp.o]
    /\ IsOpen(obj[lastOp.o].fd)
    /\ inq[lastOp.o] = <<>>
    /\ ~PeerGone(lastOp.o)
    /\ rd.how = "true"

\* C15: on a Socket that was constructed and connected, isConnected() returns
\* true as long as the peer has not closed the connection (and the Socket's own
\* descriptor is open), before any I/O and after it.
C15_ConnectedWhilePeerThere ==
    (/\ lastOp.op = "Socket::isConnected"
     /\ IsOpen(obj[lastOp.o].fd)
     /\ ~PeerGone(lastOp.o)) => rd.how = "true"

\* isConnected() has answered true on the connected client Socket before any
\* byte was written or read at either end: the peek found nothing (EWOULDBLOCK).
C15_Witness ==
    /\ lastOp.op = "Socket::isConnected"
    /\ lastOp.o = "a"
    /\ \A o \in Objs : sent[o] = <<>> /\ got[o] = <<>> /\ IsOpen(obj[o].fd)
    /\ rd.how = "true"
    /\ rd.n = SOCKET_ERROR
    /\ calls # <<>>
    /\ calls[Len(calls)].r \in WouldBlock

\* A step in which operation op was made (and not one in which only the
\* environment moved).
OpStep(op) ==
    /\ lastOp'.op = op
    /\ <<lastOp, calls, exc, obj, fdSt>>' # <<lastOp, calls, exc, obj, fdSt>>

\* C16: the operations of a ServerSocket that succeed follow the order Unbound,
\* Bound, Listening, (Accept)*, Closed: listen() succeeds only on a descriptor
\* that a bind() bound, accept() only on one that listens, bind() only with a
\* selected candidate, and on a closed ServerSocket every one of them throws.
C16_ServerLifecycleOrder ==
    [][LET me == obj[lastOp'.src]
       IN /\ OpStep("ServerSocket::bind") /\ ~exc'.thrown =>
                me.sel # NoSel /\ me.fd \in Fds /\ sk[me.fd].st = "fresh"
          /\ OpStep("ServerSocket::listen") /\ ~exc'.thrown =>
                me.fd \in Fds /\ sk[me.fd].st \in {"bound", "listening"}
          /\ OpStep("ServerSocket::accept") /\ ~exc'.thrown =>
                me.fd \in Fds /\ sk[me.fd].st = "listening"
          /\ (/\ \/ OpStep("ServerSocket::bind")
                  \/ OpStep("ServerSocket::listen")
                  \/ OpStep("ServerSocket::accept")
              /\ me.fd = INVALID_SOCKET) => exc'.thrown]_vars

C18_AcceptedSocket ==
    [][/\ OpStep("ServerSocket::accept") /\ ~exc'.thrown =>
            LET d == obj[lastOp'.src].fd
                s == obj'[lastOp'.o]
            IN /\ s.kind = "Socket"
               /\ s.fd # INVALID_SOCKET
               /\ fdSt'[s.fd] = "open"
               /\ sk[d].q # <<>>
               /\ s.remote = [addr |-> Head(sk[d].q), len |-> AddrLen(Head(sk[d].q))]
               /\ s.ai = nullptr
               /\ s.sel = NoSel
       /\ (OpStep("Socket::connect") /\ obj[lastOp'.o].remote # NoRemote) =>
            /\ exc' = Thrown(0)
            /\ calls' = <<>>
            /\ obj' = obj
            /\ fdSt' = fdSt]_vars

\* connect() was called on a Socket accepted from an IPv6 peer, and threw code 0.
C18_Witness ==
    /\ lastOp.op = "Socket::connect"
    /\ obj[lastOp.o].kind = "Socket"
    /\ obj[lastOp.o].remote = [addr |-> "v6", len |-> AddrLen("v6")]
    /\ IsOpen(obj[lastOp.o].fd)
    /\ exc = Thrown(0)
    /\ calls = <<>>

\* C20: when ServerSocket::bind() fails it throws, and afterwards the ServerSocket
\* is not valid (isValid() is false: serverSocket is INVALID_SOCKET).
C20_BindFailureInvalidates ==
    (lastOp.op = "ServerSocket::bind" /\ exc.thrown) =>
        obj[lastOp.o].fd = INVALID_SOCKET

\* C19: the ServerSocket constructor walks the candidates of its list twice. It
\* calls socket() for the IPv6 candidates in list order until one succeeds,
\* selects that one and clears IPV6_V6ONLY on its descriptor; it calls socket()
\* for the IPv4 candidates, in list order until one succeeds, only when no IPv6
\* candidate gave a descriptor, and selects that one; when no candidate gave a
\* descriptor the construction throws. A ServerSocket that was constructed has
\* the candidate whose socket() succeeded selected.
C19_ServerPrefersIPv6 ==
    (lastOp.op = "ServerSocket::ServerSocket" /\ calls # <<>> /\ calls[1].r = 0) =>
        LET l == calls[1].a
            fams == resolved[l]
            me == obj[lastOp.o]
            V6 == {i \in DOMAIN fams : fams[i] = AF_INET6}
            V4 == {i \in DOMAIN fams : fams[i] = AF_INET}
            tried(i) == \E k \in DOMAIN calls : calls[k].op = "socket" /\ calls[k].a = i
            made(i) ==
                \E k \in DOMAIN calls :
                    calls[k].op = "socket" /\ calls[k].a = i /\ calls[k].r = 0
            v6only == \E k \in DOMAIN calls : calls[k].op = "IPV6_V6ONLY"
        IN  /\ \A i \in V6 : tried(i) <=> \A j \in V6 : j < i => ~made(j)
            /\ \A i \in V4 :
                   tried(i) <=> /\ \A j \in V6 : ~made(j)
                                /\ \A j \in V4 : j < i => ~made(j)
            /\ v6only <=> \E i \in V6 : made(i)
            /\ (\A i \in DOMAIN fams : ~made(i)) => exc.thrown /\ me.kind = "none"
            /\ ~exc.thrown =>
                   /\ me.kind = "ServerSocket"
                   /\ me.ai = l
                   /\ me.sel.l = l
                   /\ me.sel.i \in DOMAIN fams
                   /\ made(me.sel.i)
                   /\ IsOpen(me.fd)
                   /\ fams[me.sel.i] = AF_INET6 =>
                          \E k \in DOMAIN calls :
                              /\ calls[k].op = "IPV6_V6ONLY"
                              /\ calls[k].a = me.fd
                              /\ calls[k].r = 0

\* A ServerSocket was constructed from a list whose first candidate is IPv4 and
\* whose second is IPv6: the second is selected and the first was never tried.
C19_Witness ==
    /\ lastOp.op = "ServerSocket::ServerSocket"
    /\ ~exc.thrown
    /\ obj[lastOp.o].kind = "ServerSocket"
    /\ obj[lastOp.o].ai \in Ais
    /\ resolved[obj[lastOp.o].ai] = <<AF_INET, AF_INET6>>
    /\ obj[lastOp.o].sel.i = 2
    /\ \A k \in DOMAIN calls : calls[k].op = "socket" => calls[k].a = 2

\* C21: a ServerSocket::close() that found a valid descriptor calls ::shutdown on
\* it and then CloseSocket on it, whatever ::shutdown returned; the exception it
\* throws, if any, is the failure of CloseSocket, never that of ::shutdown; and
\* when CloseSocket succeeded the descriptor is closed and serverSocket is
\* INVALID_SOCKET, also after a failed ::shutdown.
C21_ServerCloseShutsDownFirst ==
    [][(/\ lastOp'.op = "ServerSocket::close"
        /\ <<lastOp, calls, exc, obj, fdSt>>' # <<lastOp, calls, exc, obj, fdSt>>
        /\ obj[lastOp'.o].kind = "ServerSocket"
        /\ obj[lastOp'.o].fd # INVALID_SOCKET)
       => LET d == obj[lastOp'.o].fd
          IN /\ Len(calls') = 2
             /\ calls'[1].op = "shutdown" /\ calls'[1].a = d
             /\ calls'[2].op = "close" /\ calls'[2].a = d
             /\ exc'.thrown <=> calls'[2].r # 0
             /\ exc'.thrown => exc'.code = calls'[2].r
             /\ calls'[2].r = 0 =>
                   /\ obj'[lastOp'.o].fd = INVALID_SOCKET
                   /\ d \in Fds => fdSt'[d] # "open"]_vars

\* ::shutdown failed on a listening descriptor, CloseSocket succeeded: close()
\* returned normally and the ServerSocket is invalid.
C21_Witness ==
    /\ lastOp.op = "ServerSocket::close"
    /\ Len(calls) = 2
    /\ calls[1].op = "shutdown" /\ calls[1].r # 0
    /\ calls[2].op = "close" /\ calls[2].r = 0
    /\ calls[1].a \in Fds
    /\ fdSt[calls[1].a] = "closed"
    /\ ~exc.thrown
    /\ obj[lastOp.o].kind = "ServerSocket"
    /\ obj[lastOp.o].fd = INVALID_SOCKET

\* C27: the SocketInitializer objects that exist are exactly the successful
\* InitSockets calls not yet paired with a CleanupSockets call. So CleanupSockets
\* was never called more often than InitSockets succeeded, and as often once no
\* SocketInitializer is left; a constructor that threw left no object and made no
\* CleanupSockets call, and a destructor makes exactly one.
C27_CleanupPairsWithInit ==
    /\ stack.cleanups <= stack.inits
    /\ Cardinality({o \in Objs : obj[o].kind = "SocketInitializer"})
          = stack.inits - stack.cleanups
    /\ (lastOp.op = "SocketInitializer::SocketInitializer" /\ exc.thrown) =>
          /\ obj[lastOp.o].kind = "none"
          /\ \A i \in DOMAIN calls : calls[i].op # "CleanupSockets"
    /\ lastOp.op = "SocketInitializer::~SocketInitializer" =>
          /\ obj[lastOp.o].kind = "none"
          /\ Len(SelectSeq(calls, LAMBDA c : c.op = "CleanupSockets")) = 1

\* Two initializers were constructed and both destroyed, and a constructor
\* failed since: the stack was released as often as it was acquired.
C27_Witness ==
    /\ stack.inits = 2
    /\ stack.cleanups = 2
    /\ lastOp.op = "SocketInitializer::SocketInitializer"
    /\ exc.thrown
    /\ \A o \in Objs : obj[o].kind = "none"

\* C28: a Socket constructor whose getaddrinfo failed throws an exception whose
\* code is the value getaddrinfo returned.
C28_ResolverCodeReported ==
    (/\ lastOp.op = "Socket::Socket"
     /\ calls # <<>>
     /\ calls[1].op = "getaddrinfo"
     /\ calls[1].r # 0)
    => exc.thrown /\ exc.code = calls[1].r

\* C29: an operation that is not a destructor and saw one of its OS calls fail
\* left with an exception.
C29_FailuresReported ==
    (/\ ~IsDtor(lastOp.op)
     /\ \E i \in DOMAIN calls : calls[i].r # 0)
    => exc.thrown

\* C30: getRemoteSocketAddress() on a Socket whose connect() has just succeeded
\* does not return "null".
C30_RemoteAddressAfterConnect ==
    [][(/\ lastOp.op = "Socket::connect"
        /\ ~exc.thrown
        /\ lastOp'.op = "Socket::getRemoteSocketAddress"
        /\ lastOp'.o = lastOp.o)
       => ret' # <<"null">>]_vars

\* C22: sendTo on a DatagramSocket constructed with no arguments, towards a
\* destination that getaddrinfo resolved, returns normally with the number of
\* bytes sent.
C22_UnboundClientSends ==
    (/\ lastOp.op = "DatagramSocket::sendTo"
     /\ obj[lastOp.o].fd = INVALID_SOCKET
     /\ obj[lastOp.o].ai = nullptr
     /\ calls # <<>>
     /\ calls[1].r = 0)
    => ~exc.thrown /\ ret.n # SOCKET_ERROR

\* C23: a recvFrom on the bound server that returned a datagram of the client
\* into a buffer at least as long as its payload returns that payload and its
\* length, the host text of the sender's address as the server's descriptor
\* sees it, and as senderPort the local port of the client's descriptor.
C23_RecvFromReportsSender ==
    (/\ lastOp.op = "DatagramSocket::recvFrom"
     /\ rd.how = "returned"
     /\ ret.from.by # 0
     /\ ret.arg >= Len(ret.from.data))
    => /\ ret.data = ret.from.data
       /\ ret.n = Len(ret.from.data)
       /\ ret.from.by = obj["b"].fd
       /\ ret.senderPort = udp[obj["b"].fd].port
       /\ ret.senderPort \in EphemeralPorts
       /\ ret.senderAddr = getnameinfo(SeenAs(udp[obj[lastOp.o].fd].fam, "v4"), 0)

\* The server received the longest payload of the client whole, from the port
\* the OS gave the client's descriptor at its first sendTo.
C23_Witness ==
    /\ lastOp.op = "DatagramSocket::recvFrom"
    /\ rd.how = "returned"
    /\ ret.from.by = 2
    /\ ret.arg = MaxLen
    /\ ret.n = MaxLen
    /\ ret.data = [i \in 1..MaxLen |-> i]
    /\ ret.senderPort = 65535
    /\ ret.senderAddr = "dotted-quad"

\* C24: a setTimeout(millis) that returned normally left millis as the receive
\* timeout of the descriptor; a recvFrom that waits on a descriptor with a
\* receive timeout returns control; and a recvFrom that stops waiting while no
\* datagram is there leaves with an exception that carries the timeout error.
C24_RecvFromTimesOut ==
    /\ [][(/\ lastOp'.op = "DatagramSocket::setTimeout"
           /\ <<lastOp, calls, exc, ret, udp>>' # <<lastOp, calls, exc, ret, udp>>
           /\ ~exc'.thrown)
          => udp'[obj[lastOp'.o].fd].tmo = ret'.arg]_vars
    /\ [][(Blocked /\ ~Blocked' /\ udp[obj[lastOp.o].fd].q = <<>>)
          => exc'.thrown /\ exc'.code \in WouldBlock]_vars
    /\ (Blocked /\ udp[obj[lastOp.o].fd].tmo > 0) ~> ~Blocked

\* The receive timeout of the server ran out in a recvFrom: it threw.
C24_Witness ==
    /\ lastOp.op = "DatagramSocket::recvFrom"
    /\ rd.how = "error"
    /\ exc.thrown
    /\ exc.code \in WouldBlock
    /\ udp[obj[lastOp.o].fd].tmo = 1500
    /\ udp[obj[lastOp.o].fd].q = <<>>

\* C25: every UnixSocket::bind() calls unlink on the socket path first, whatever
\* is or is not there, and goes on to ::bind whatever unlink returned; when the
\* file of an earlier server was at the path and unlink removed it, ::bind on a
\* fresh open descriptor succeeds, nothing is thrown and the path is bound.
C25_BindRemovesStalePath ==
    [][(lastOp'.op = "UnixSocket::bind" /\ <<calls, lastOp, path, exc, fdSt>>' # <<calls, lastOp, path, exc, fdSt>>)
       => /\ Len(calls') >= 2
          /\ calls'[1].op = "unlink"
          /\ calls'[2].op = "bind"
          /\ (/\ path # "absent"
              /\ calls'[1].r = 0
              /\ IsOpen(obj[lastOp'.o].fd)
              /\ sk[obj[lastOp'.o].fd].st = "fresh")
             => /\ calls'[2].r = 0
                /\ ~exc'.thrown
                /\ path' = "bound"
                /\ sk'[obj[lastOp'.o].fd].st = "bound"]_vars

\* A second server has bound the path an earlier server of this program had
\* bound and left behind.
C25_Witness ==
    /\ prog = "local"
    /\ lastOp.op = "UnixSocket::bind"
    /\ Len(calls) = 2
    /\ calls[1] = Call("unlink", "socket_path", 0)
    /\ calls[2].r = 0
    /\ ~exc.thrown
    /\ path = "bound"
    /\ \E d \in Fds : fdSt[d] = "closed" /\ sk[d].st # "fresh"

\* C26: with the server bound and listening on the path and a client connected
\* to it, the UnixSocket that accept() returned refers to an open descriptor
\* whenever the program reads from it, and the bytes a read returns are the
\* first of those the client wrote that had not been read, in the order written.
C26_AcceptedSocketReadsWhatWasWritten ==
    /\ [](lastOp.op = "UnixSocket::read" => IsOpen(obj[lastOp.o].fd))
    /\ [][(/\ lastOp'.op = "UnixSocket::read"
           /\ sk' = sk
           /\ Len(rx') <= Len(rx)
           /\ rd'.how = "returned")
          => rd'.data \o rx' = rx]_vars

\* C31: getRemoteSocketAddress() on a Socket whose cached peer address is an
\* IPv4-mapped IPv6 address, with getnameinfo succeeding, returns the IPv4
\* dotted form and the port of the cached address, and leaves the IPv4 address
\* cached; the next call on the same Socket finds nothing to rewrite, leaves the
\* cache as it is and returns the same string.
C31_MappedPeerShownAsIPv4 ==
    /\ [][(/\ lastOp'.op = "Socket::getRemoteSocketAddress"
           /\ obj[lastOp'.o].remote.addr = "v4mapped"
           /\ calls'[Len(calls')].r = 0)
          => /\ ret' = <<"dotted-quad", ":", Digits(Sockaddr("v4mapped").port)>>
             /\ obj'[lastOp'.o].remote = [addr |-> "v4", len |-> AddrLen("v4")]]_vars
    /\ [][(/\ lastOp.op = "Socket::getRemoteSocketAddress"
           /\ lastOp' = lastOp
           /\ calls # <<>>
           /\ calls[1].op = "memcpy"
           /\ calls[Len(calls)].r = 0
           /\ calls'[Len(calls')].r = 0)
          => /\ ret' = ret
             /\ obj' = obj
             /\ calls' = <<Call("getnameinfo", "v4", 0)>>]_vars

\* A call has rewritten the cached IPv4-mapped address of an accepted Socket and
\* returned the dotted form with the peer's port.
C31_Witness ==
    /\ lastOp.op = "Socket::getRemoteSocketAddress"
    /\ calls = <<Call("memcpy", "remote_addr", 0), Call("getnameinfo", "v4", 0)>>
    /\ obj[lastOp.o].remote = [addr |-> "v4", len |-> 16]
    /\ ret = <<"dotted-quad", ":", <<4, 0, 0, 0, 0>>>>

\* C32: isConnected() leaves the blocking mode of the Socket's descriptor as it
\* found it, for a descriptor in blocking mode and for one in non-blocking mode,
\* on the POSIX build and on the Windows build.
C32_IsConnectedKeepsMode ==
    [][lastOp'.op = "Socket::isConnected" => nonBlocking' = nonBlocking]_vars

\* C33: the ServerSocket move constructor gives the destination the source's
\* descriptor, candidate list and selected candidate, and bind() on a ServerSocket
\* that owns a list, moved-to or not, goes on to ::bind and does not throw the
\* no-candidate error.
C33_MovedServerKeepsCandidate ==
    /\ [][OpStep("ServerSocket::ServerSocket(ServerSocket&&)") =>
             /\ obj'[lastOp'.o].fd = obj[lastOp'.src].fd
             /\ obj'[lastOp'.o].ai = obj[lastOp'.src].ai
             /\ obj'[lastOp'.o].sel = obj[lastOp'.src].sel]_vars
    /\ [][(OpStep("ServerSocket::bind") /\ obj[lastOp'.o].ai # nullptr) =>
             /\ exc' # Thrown(0)
             /\ calls' # <<>>
             /\ calls'[1].op = "bind"]_vars

\* C34: in every state the selected candidate of a Socket or a ServerSocket is
\* null or a candidate of the list the same object holds, and that list has not
\* been freed.
C34_SelectedWithinOwnedList ==
    \A o \in Objs :
        obj[o].kind \in {"Socket", "ServerSocket"} =>
            \/ obj[o].sel = NoSel
            \/ /\ obj[o].ai # nullptr
               /\ obj[o].sel.l = obj[o].ai
               /\ aiSt[obj[o].ai] = "live"

\* C35: when the construction of a ServerSocket throws after socket() gave it a
\* descriptor, CloseSocket has been called on that descriptor and the candidate
\* list has been freed before the exception leaves the constructor.
C35_FailedServerCtorClosesDescriptor ==
    [][(/\ OpStep("ServerSocket::ServerSocket")
        /\ exc'.thrown
        /\ \E k \in DOMAIN calls' : calls'[k].op = "socket" /\ calls'[k].r = 0)
       => /\ \A d \in Fds : fdSt[d] = "unused" => fdSt'[d] \in {"unused", "closed"}
          /\ \E k \in DOMAIN calls' : calls'[k].op = "close"
          /\ \E k \in DOMAIN calls' : calls'[k].op = "freeaddrinfo"
          /\ \A l \in Ais : aiSt[l] = "unused" => aiSt'[l] \in {"unused", "freed"}]_vars

\* C36: a Socket::read<std::string>() that ended with the connection-closed
\* exception was made on a connection whose peer had closed it, whatever the
\* buffer size of the Socket.
C36_ClosedOnlyWhenPeerClosed ==
    (/\ lastOp.op = "Socket::read<std::string>"
     /\ rd.how = "closed") => PeerGone(lastOp.o)

\* C37: a Socket::read<T>() or UnixSocket::read<T>() that returned a value had
\* received all sizeof(T) bytes of it.
C37_ValueReadWhole ==
    (/\ lastOp.op \in {"Socket::read<T>", "UnixSocket::read<T>"}
     /\ rd.how = "returned") => rd.n = ret[1]

\* C38: Socket a = std::move(b) with a and b distinct passes a's descriptor, if
\* a had one, to CloseSocket once and a's list, if a had one, to freeaddrinfo
\* once, and releases nothing else; afterwards a holds b's descriptor, list and
\* selected candidate and b holds none. With a and b the same object nothing is
\* released and nothing changes.
C38_MoveAssignReleasesOnce ==
    [][lastOp'.op = "Socket::operator=" =>
          LET dst == lastOp'.o
              src == lastOp'.src
              me == obj[dst]
              rhs == obj[src]
              closes == SelectSeq(calls', LAMBDA c : c.op = "close")
              frees == SelectSeq(calls', LAMBDA c : c.op = "freeaddrinfo")
          IN IF dst = src
             THEN obj' = obj /\ fdSt' = fdSt /\ aiSt' = aiSt /\ calls' = <<>>
             ELSE /\ Len(closes) = (IF me.fd # INVALID_SOCKET THEN 1 ELSE 0)
                  /\ \A i \in DOMAIN closes : closes[i].a = me.fd
                  /\ Len(frees) = (IF me.ai # nullptr THEN 1 ELSE 0)
                  /\ \A i \in DOMAIN frees : frees[i].a = me.ai
                  /\ fdSt' = CloseSocketSt(fdSt, me.fd)
                  /\ aiSt' = FreeAddrInfoSt(aiSt, me.ai)
                  /\ obj'[dst].fd = rhs.fd
                  /\ obj'[dst].ai = rhs.ai
                  /\ obj'[dst].sel = rhs.sel
                  /\ obj'[src].fd = INVALID_SOCKET
                  /\ obj'[src].ai = nullptr
                  /\ obj'[src].sel = NoSel
                  /\ ~exc'.thrown]_vars

\* A Socket that held an open descriptor and a list was assigned from another
\* Socket that held its own: the first pair was released, the second taken over.
C38_Witness ==
    /\ lastOp.op = "Socket::operator="
    /\ lastOp.o # lastOp.src
    /\ Len(calls) = 2
    /\ calls[1].op = "close"
    /\ calls[2].op = "freeaddrinfo"
    /\ fdSt[calls[1].a] = "closed"
    /\ aiSt[calls[2].a] = "freed"
    /\ IsOpen(obj[lastOp.o].fd)
    /\ obj[lastOp.o].ai # nullptr
    /\ aiSt[obj[lastOp.o].ai] = "live"
    /\ obj[lastOp.src].fd = INVALID_SOCKET
    /\ obj[lastOp.src].ai = nullptr
====
